---- MODULE Spec2Model ----
(***************************************************************************)
(* Filter-query compiler and paginated query executor of                   *)
(* clean-architecture-core: DynamoValidator.ts, DynamoDBExpressionBuilder  *)
(* and DynamoDBService (DynamoExpressionBuilder.ts).                       *)
(*                                                                         *)
(* JavaScript strings are sequences of one-character strings, so that      *)
(* toLowerCase, split, includes and the regular expressions of the source  *)
(* are computed and not assumed.  Operators (the `operator` field of a     *)
(* predicate) are only ever compared for identity by the source and are    *)
(* kept as TLA+ strings; so are the placeholder keys, which the source     *)
(* builds by template strings and the model by \o and ToString.            *)
(***************************************************************************)
EXTENDS Integers, Sequences, FiniteSets, TLC

VARIABLES
  pc,       \* position of the fetchWithFiltersAndPagination call
  query,    \* its argument: [filters, pagination]
  table,    \* the items held by the store
  locals,   \* limit, offset and pagination kept across the await of send
  sent,     \* the commands handed to dynamoDBClient.send, in order
  logs,     \* the console.error calls of handleError
  outcome,  \* what the call resolved or rejected with
  fn,       \* the pure function a function-level specification applies
  arg,      \* its argument
  ret       \* its result

vars == <<pc, query, table, locals, sent, logs, outcome, fn, arg, ret>>

callVars == <<pc, query, table, locals, sent, logs, outcome>>

fnVars == <<fn, arg, ret>>

(***************************************************************************)
(* Characters and strings                                                  *)
(***************************************************************************)
LowerAlpha ==
  <<"a", "b", "c", "d", "e", "f", "g", "h", "i", "j", "k", "l", "m", "n", "o", "p", "q", "r", "s", "t", "u", "v", "w", "x", "y", "z">>

UpperAlpha ==
  <<"A", "B", "C", "D", "E", "F", "G", "H", "I", "J", "K", "L", "M", "N", "O", "P", "Q", "R", "S", "T", "U", "V", "W", "X", "Y", "Z">>

DigitChars ==
  <<"0", "1", "2", "3", "4", "5", "6", "7", "8", "9">>

Range(f) == {f[i] : i \in DOMAIN f}

IsLetter(c) == c \in Range(LowerAlpha) \cup Range(UpperAlpha)

IsDigit(c) == c \in Range(DigitChars)

IsWhitespace(c) == c \in {" ", "\t", "\n"}

ToLowerChar(c) ==
  IF c \in Range(UpperAlpha)
    THEN LowerAlpha[CHOOSE i \in DOMAIN UpperAlpha : UpperAlpha[i] = c]
    ELSE c

ToUpperChar(c) ==
  IF c \in Range(LowerAlpha)
    THEN UpperAlpha[CHOOSE i \in DOMAIN LowerAlpha : LowerAlpha[i] = c]
    ELSE c

toLowerCase(s) == [i \in 1..Len(s) |-> ToLowerChar(s[i])]

toUpperCase(s) == [i \in 1..Len(s) |-> ToUpperChar(s[i])]

\* String.prototype.includes
Includes(s, p) ==
  \E i \in 0..(Len(s) - Len(p)) : SubSeq(s, i + 1, i + Len(p)) = p

\* Array.prototype.join over strings
RECURSIVE Join(_, _)
Join(parts, sep) ==
  IF Len(parts) = 0 THEN <<>>
  ELSE IF Len(parts) = 1 THEN parts[1]
  ELSE parts[1] \o sep \o Join(Tail(parts), sep)

\* String.prototype.split(".") : one part more than there are separators
RECURSIVE SplitDot(_)
SplitDot(s) ==
  IF \A i \in 1..Len(s) : s[i] # "."
    THEN <<s>>
    ELSE LET i == CHOOSE j \in 1..Len(s) :
                    s[j] = "." /\ \A k \in 1..(j - 1) : s[k] # "."
         IN  <<SubSeq(s, 1, i - 1)>> \o SplitDot(SubSeq(s, i + 1, Len(s)))

\* String.prototype.split(/\s+/) : a separator is a maximal run of whitespace
RECURSIVE SplitWhitespace(_)
SplitWhitespace(s) ==
  IF \A i \in 1..Len(s) : ~IsWhitespace(s[i])
    THEN <<s>>
    ELSE LET i == CHOOSE j \in 1..Len(s) :
                    IsWhitespace(s[j]) /\ \A k \in 1..(j - 1) : ~IsWhitespace(s[k])
             j == CHOOSE m \in (i + 1)..(Len(s) + 1) :
                    /\ (m <= Len(s) => ~IsWhitespace(s[m]))
                    /\ \A k \in i..(m - 1) : IsWhitespace(s[k])
         IN  <<SubSeq(s, 1, i - 1)>> \o SplitWhitespace(SubSeq(s, j, Len(s)))

\* Array.prototype.filter(term => term.length > 0)
RECURSIVE NonEmpty(_)
NonEmpty(parts) ==
  IF Len(parts) = 0 THEN <<>>
  ELSE IF Len(parts[1]) > 0 THEN <<parts[1]>> \o NonEmpty(Tail(parts))
  ELSE NonEmpty(Tail(parts))

\* decimal digits of a natural number, and String(n) of an integer
RECURSIVE NatChars(_)
NatChars(n) ==
  IF n < 10 THEN <<DigitChars[n + 1]>>
  ELSE NatChars(n \div 10) \o <<DigitChars[(n % 10) + 1]>>

IntChars(n) == IF n < 0 THEN <<"-">> \o NatChars(0 - n) ELSE NatChars(n)

(***************************************************************************)
(* JavaScript values.  One record shape for every value, so that any two   *)
(* values can be compared: t is the kind, s the characters of a string,    *)
(* n the integer of a number (of n + 1/2 for kind "half"), a the elements  *)
(* of an array or the property values of an object, k the property names.  *)
(***************************************************************************)
JSUndefined == [t |-> "undefined", s |-> <<>>, n |-> 0, a |-> <<>>, k |-> <<>>]

JSNull == [t |-> "null", s |-> <<>>, n |-> 0, a |-> <<>>, k |-> <<>>]

JSNaN == [t |-> "nan", s |-> <<>>, n |-> 0, a |-> <<>>, k |-> <<>>]

JSStr(s) == [t |-> "str", s |-> s, n |-> 0, a |-> <<>>, k |-> <<>>]

JSNum(n) == [t |-> "num", s |-> <<>>, n |-> n, a |-> <<>>, k |-> <<>>]

JSHalf(n) == [t |-> "half", s |-> <<>>, n |-> n, a |-> <<>>, k |-> <<>>]

JSArr(a) == [t |-> "arr", s |-> <<>>, n |-> 0, a |-> a, k |-> <<>>]

JSObj(k, a) == [t |-> "obj", s |-> <<>>, n |-> 0, a |-> a, k |-> k]

\* typeof v === "number"
IsNumberType(v) == v.t \in {"num", "half", "nan"}

\* characters of a number as String() and JSON.stringify print it
NumberChars(v) ==
  IF v.t = "num" THEN IntChars(v.n)
  ELSE IF v.t = "half" THEN IntChars(v.n) \o <<".", "5">>
  ELSE <<"N", "a", "N">>

\* String(v)
RECURSIVE JSString(_)
JSString(v) ==
  CASE v.t = "str" -> v.s
    [] v.t = "undefined" -> <<"u", "n", "d", "e", "f", "i", "n", "e", "d">>
    [] v.t = "null" -> <<"n", "u", "l", "l">>
    [] IsNumberType(v) -> NumberChars(v)
    [] v.t = "arr" ->
         Join([i \in 1..Len(v.a) |->
                 IF v.a[i].t \in {"null", "undefined"} THEN <<>> ELSE JSString(v.a[i])],
              <<",">>)
    [] OTHER -> <<"[", "o", "b", "j", "e", "c", "t", " ", "O", "b", "j", "e", "c", "t", "]">>

\* the string whose characters are those of a number, for Number(string)
IsIntLiteral(s) ==
  /\ Len(s) > 0
  /\ LET d == IF s[1] = "-" THEN Tail(s) ELSE s
     IN  Len(d) > 0 /\ \A i \in 1..Len(d) : IsDigit(d[i])

RECURSIVE NatOfChars(_)
NatOfChars(d) ==
  IF Len(d) = 0 THEN 0
  ELSE 10 * NatOfChars(SubSeq(d, 1, Len(d) - 1))
         + ((CHOOSE i \in DOMAIN DigitChars : DigitChars[i] = d[Len(d)]) - 1)

\* Number(v): undefined is NaN, null is 0, "" is 0, a decimal literal its value
Number(v) ==
  CASE v.t = "undefined" -> JSNaN
    [] v.t = "null" -> JSNum(0)
    [] IsNumberType(v) -> v
    [] v.t = "str" ->
         IF Len(v.s) = 0 THEN JSNum(0)
         ELSE IF IsIntLiteral(v.s)
           THEN IF v.s[1] = "-" THEN JSNum(0 - NatOfChars(Tail(v.s)))
                ELSE JSNum(NatOfChars(v.s))
         ELSE JSNaN
    [] OTHER -> JSNaN

\* Number.isInteger
NumberIsInteger(v) == v.t = "num"

\* Math.floor(v), which first converts with Number
MathFloor(v) ==
  LET x == Number(v) IN IF x.t = "half" THEN JSNum(x.n) ELSE x

\* Math.max(c, v) of an integer c and a number v that Math.floor returned
MathMax(c, v) ==
  IF v.t = "nan" THEN JSNaN ELSE JSNum(IF v.n > c THEN v.n ELSE c)

\* JSON.stringify
RECURSIVE JSONStringify(_)
JSONStringify(v) ==
  CASE v.t = "str" -> <<"\"">> \o v.s \o <<"\"">>
    [] v.t \in {"null", "undefined", "nan"} -> <<"n", "u", "l", "l">>
    [] IsNumberType(v) -> NumberChars(v)
    [] v.t = "arr" ->
         <<"[">> \o Join([i \in 1..Len(v.a) |-> JSONStringify(v.a[i])], <<",">>) \o <<"]">>
    [] OTHER ->
         LET shown == SelectSeq([i \in 1..Len(v.k) |-> i],
                                LAMBDA i : v.a[i].t # "undefined")
         IN  <<"{">>
               \o Join([j \in 1..Len(shown) |->
                          <<"\"">> \o v.k[shown[j]] \o <<"\"", ":">>
                            \o JSONStringify(v.a[shown[j]])],
                       <<",">>)
               \o <<"}">>

(***************************************************************************)
(* DynamoValidator.ts                                                      *)
(***************************************************************************)
MAX_FIELD_DEPTH == 20

MAX_FIELD_LENGTH == 255

MAX_VALUE_LENGTH == 400000

\* /^[a-zA-Z][a-zA-Z0-9_]*$/
\* VALID_FIELD_REGEX without the demand that a part begins with a letter
VALID_FIELD_REGEX_AnyFirst(part) ==
  /\ Len(part) > 0
  /\ \A i \in 1..Len(part) : IsLetter(part[i]) \/ IsDigit(part[i]) \/ part[i] = "_"

VALID_FIELD_REGEX(part) ==
  /\ Len(part) > 0
  /\ IsLetter(part[1])
  /\ \A i \in 2..Len(part) : IsLetter(part[i]) \/ IsDigit(part[i]) \/ part[i] = "_"

UNSAFE_PATTERNS ==
  << <<"_", "_", "p", "r", "o", "t", "o", "_", "_">>,
     <<"c", "o", "n", "s", "t", "r", "u", "c", "t", "o", "r">>,
     <<"p", "r", "o", "t", "o", "t", "y", "p", "e">>,
     <<"$">>,
     <<";">>,
     <<"D", "R", "O", "P">>,
     <<"D", "E", "L", "E", "T", "E">>,
     <<"I", "N", "S", "E", "R", "T">>,
     <<"U", "P", "D", "A", "T", "E">> >>

NOSQL_OPERATORS ==
  {<<"$", "w", "h", "e", "r", "e">>,
   <<"$", "r", "e", "g", "e", "x">>,
   <<"$", "n", "e">>,
   <<"$", "g", "t">>,
   <<"$", "l", "t">>,
   <<"$", "g", "t", "e">>,
   <<"$", "l", "t", "e">>,
   <<"$", "i", "n">>,
   <<"$", "n", "i", "n">>,
   <<"$", "o", "r">>,
   <<"$", "a", "n", "d">>,
   <<"$", "n", "o", "t">>,
   <<"$", "e", "x", "i", "s", "t", "s">>,
   <<"$", "t", "y", "p", "e">>,
   <<"$", "m", "o", "d">>,
   <<"$", "t", "e", "x", "t">>,
   <<"$", "e", "l", "e", "m", "M", "a", "t", "c", "h">>,
   <<"$", "s", "i", "z", "e">>,
   <<"$", "a", "l", "l">>,
   <<"$", "e", "x", "p", "r">>}

\* the errors a call can end with
ValidationError == "DynamoValidationError"

TypeError == "TypeError"

\* the first exception of a forEach over checks run in order
RECURSIVE FirstError(_)
FirstError(results) ==
  IF Len(results) = 0 THEN "ok"
  ELSE IF results[1] # "ok" THEN results[1]
  ELSE FirstError(Tail(results))

validateFieldName(field) ==
  IF Len(field) = 0 THEN ValidationError
  ELSE IF \E i \in DOMAIN UNSAFE_PATTERNS :
            Includes(toLowerCase(field), toLowerCase(UNSAFE_PATTERNS[i]))
    THEN ValidationError
  ELSE LET parts == SplitDot(field)
       IN  IF Len(parts) > MAX_FIELD_DEPTH THEN ValidationError
           ELSE FirstError([i \in 1..Len(parts) |->
                  IF Len(parts[i]) > MAX_FIELD_LENGTH THEN ValidationError
                  ELSE IF ~VALID_FIELD_REGEX(parts[i]) THEN ValidationError
                  ELSE "ok"])

\* dangerousPatterns without the three prototype keys
dangerousPatternsOfOperators ==
  << <<"$", "w", "h", "e", "r", "e">>, <<"$", "r", "e", "g", "e", "x">>,
     <<"$", "n", "e">>, <<"$", "g", "t">>, <<"$", "l", "t">>,
     <<"$", "g", "t", "e">>, <<"$", "l", "t", "e">>, <<"$", "i", "n">>,
     <<"$", "n", "i", "n">>, <<"$", "o", "r">>, <<"$", "a", "n", "d">>,
     <<"$", "n", "o", "t">>, <<"$", "e", "x", "i", "s", "t", "s">>,
     <<"$", "t", "y", "p", "e">>, <<"$", "m", "o", "d">>, <<"$", "t", "e", "x", "t">>,
     <<"$", "e", "l", "e", "m", "M", "a", "t", "c", "h">>, <<"$", "s", "i", "z", "e">>,
     <<"$", "a", "l", "l">>, <<"$", "e", "x", "p", "r">> >>

\* the dangerousPatterns literal of validateValue
dangerousPatterns ==
  << <<"$", "w", "h", "e", "r", "e">>, <<"$", "r", "e", "g", "e", "x">>,
     <<"$", "n", "e">>, <<"$", "g", "t">>, <<"$", "l", "t">>,
     <<"$", "g", "t", "e">>, <<"$", "l", "t", "e">>, <<"$", "i", "n">>,
     <<"$", "n", "i", "n">>, <<"$", "o", "r">>, <<"$", "a", "n", "d">>,
     <<"$", "n", "o", "t">>, <<"$", "e", "x", "i", "s", "t", "s">>,
     <<"$", "t", "y", "p", "e">>, <<"$", "m", "o", "d">>, <<"$", "t", "e", "x", "t">>,
     <<"$", "e", "l", "e", "m", "M", "a", "t", "c", "h">>, <<"$", "s", "i", "z", "e">>,
     <<"$", "a", "l", "l">>, <<"$", "e", "x", "p", "r">>,
     <<"_", "_", "p", "r", "o", "t", "o", "_", "_">>,
     <<"c", "o", "n", "s", "t", "r", "u", "c", "t", "o", "r">>,
     <<"p", "r", "o", "t", "o", "t", "y", "p", "e">> >>

\* Object.prototype.hasOwnProperty.call(value, ...) of the two debug logs that
\* open validateValue: it converts its receiver to an object, and throws a
\* TypeError when the receiver is null or undefined
HasOwnPropertyCall(value) ==
  IF value.t \in {"null", "undefined"} THEN TypeError ELSE "ok"

RECURSIVE validateValue(_)
validateValue(value) ==
  IF HasOwnPropertyCall(value) # "ok" THEN HasOwnPropertyCall(value)
  ELSE IF value.t \in {"null", "undefined"} THEN ValidationError
  ELSE IF \E i \in DOMAIN dangerousPatterns :
            Includes(toLowerCase(JSONStringify(value)), toLowerCase(dangerousPatterns[i]))
    THEN ValidationError
  ELSE IF value.t = "str" /\ Len(value.s) > MAX_VALUE_LENGTH THEN ValidationError
  ELSE IF value.t = "arr"
    THEN IF Len(value.a) = 0 THEN ValidationError
         ELSE FirstError([i \in 1..Len(value.a) |-> validateValue(value.a[i])])
  ELSE IF value.t = "obj"
    THEN IF \E i \in 1..Len(value.k) : value.k[i] \in Range(dangerousPatterns)
           THEN ValidationError
         ELSE FirstError([i \in 1..Len(value.a) |-> validateValue(value.a[i])])
  ELSE "ok"

\* a pagination spec: every field is a JavaScript value, JSUndefined when absent
Pagination(page, size, limit, offset, sortBy, sortDirection) ==
  [page |-> page, size |-> size, limit |-> limit, offset |-> offset,
   sortBy |-> sortBy, sortDirection |-> sortDirection]

\* a destructuring default: it replaces undefined only
Default(v, d) == IF v.t = "undefined" THEN d ELSE v

validatePagination(pagination) ==
  LET page == Default(pagination.page, JSNum(1))
      size == Default(pagination.size, JSNum(10))
      limit == pagination.limit
      offset == Default(pagination.offset, JSNum(0))
  IN  IF page.t # "undefined" /\ ~NumberIsInteger(Number(page)) THEN ValidationError
      ELSE IF size.t # "undefined" /\ ~NumberIsInteger(Number(size)) THEN ValidationError
      ELSE IF limit.t # "undefined" /\ ~NumberIsInteger(Number(limit)) THEN ValidationError
      ELSE IF offset.t # "undefined" /\ ~NumberIsInteger(Number(offset)) THEN ValidationError
      ELSE "ok"

(***************************************************************************)
(* DynamoUtils: the codec between plain values and the store's tagged      *)
(* values.  A tagged value is [tag, s, l, k]: s the characters of an S or  *)
(* the decimal characters of an N, l the members of an L or the values of  *)
(* an M, k the keys of an M.                                               *)
(***************************************************************************)
Tagged(tag, s, l, k) == [tag |-> tag, s |-> s, l |-> l, k |-> k]

RECURSIVE toDynamoDBValue(_)
toDynamoDBValue(v) ==
  CASE v.t = "str" -> Tagged("S", v.s, <<>>, <<>>)
    [] IsNumberType(v) -> Tagged("N", NumberChars(v), <<>>, <<>>)
    [] v.t = "arr" ->
         Tagged("L", <<>>, [i \in 1..Len(v.a) |-> toDynamoDBValue(v.a[i])], <<>>)
    [] v.t = "obj" ->
         Tagged("M", <<>>, [i \in 1..Len(v.a) |-> toDynamoDBValue(v.a[i])], v.k)
    [] OTHER -> Tagged("NULL", <<>>, <<>>, <<>>)

RECURSIVE fromDynamoDBValue(_)
fromDynamoDBValue(w) ==
  CASE w.tag = "S" -> JSStr(w.s)
    [] w.tag = "N" -> Number(JSStr(w.s))
    [] w.tag = "L" -> JSArr([i \in 1..Len(w.l) |-> fromDynamoDBValue(w.l[i])])
    [] w.tag = "M" -> JSObj(w.k, [i \in 1..Len(w.l) |-> fromDynamoDBValue(w.l[i])])
    [] OTHER -> JSNull

\* a stored item is a tagged map; mapDynamoDBItemToType unwraps each attribute
mapDynamoDBItemToType(item) ==
  JSObj(item.k, [i \in 1..Len(item.l) |-> fromDynamoDBValue(item.l[i])])

(***************************************************************************)
(* DynamoDBExpressionBuilder.  An expression string is the sequence of its *)
(* tokens as the store reads them: parentheses, AND, OR, NOT and the       *)
(* operand forms  path op :val,  contains(path, :val),                     *)
(* attribute_exists(path),  attribute_not_exists(path).  A path is the     *)
(* sequence of the name placeholders that the source joins with ".".       *)
(***************************************************************************)
Tok(kind, path, op, val) == [kind |-> kind, path |-> path, op |-> op, val |-> val]

LP == Tok("(", <<>>, "", "")

RP == Tok(")", <<>>, "", "")

AND == Tok("AND", <<>>, "", "")

OR == Tok("OR", <<>>, "", "")

NOT == Tok("NOT", <<>>, "", "")

\* `${path} ${op} ${valKey}`
Cmp(path, op, val) == Tok("cmp", path, op, val)

\* `contains(${path}, ${valKey})`
Contains(path, val) == Tok("contains", path, "", val)

\* "attribute_exists(" + path + ")" and "attribute_not_exists(" + path + ")"
AttributeExists(path) == Tok("attribute_exists", path, "", "")

AttributeNotExists(path) == Tok("attribute_not_exists", path, "", "")

\* one assignment  map[key] = val  to a placeholder map
Write(key, val) == [key |-> key, val |-> val]

\* the own properties of the operatorMap object literal
operatorMap ==
  ("<" :> "<") @@ (">" :> ">") @@ ("<=" :> "<=") @@ (">=" :> ">=") @@ ("=" :> "=")
    @@ ("!=" :> "<>") @@ ("in" :> "IN") @@ ("not in" :> "NOT IN")
    @@ ("like" :> "contains") @@ ("not like" :> "NOT contains")

\* the properties every object literal inherits from Object.prototype
ObjectPrototypeProperties ==
  {"constructor", "toString", "toLocaleString", "valueOf", "hasOwnProperty",
   "isPrototypeOf", "propertyIsEnumerable", "__proto__"}

\* what an inherited property prints as inside a template string
InheritedProperty == "function () { [native code] }"

Undefined == "undefined"

\* this.operatorMap[operator]: an own property, else an inherited one, else undefined
OperatorMapGet(operator) ==
  IF operator \in DOMAIN operatorMap THEN operatorMap[operator]
  ELSE IF operator \in ObjectPrototypeProperties THEN InheritedProperty
  ELSE Undefined

\* the placeholder templates
PkNameKey == "#pk"

PkValKey == ":pkVal"

\* NameKey without the filter index in the template
NameKeyWithoutIndex(index, idx) == "#key" \o ToString(idx)

NameKey(index, idx) == "#key" \o ToString(index) \o "_" \o ToString(idx)

BasicValKey(index) == ":val" \o ToString(index)

InValKey(index, valIndex) == ":val" \o ToString(index) \o "_" \o ToString(valIndex)

LikeValKey(index, termIndex, variant) ==
  ":val" \o ToString(index) \o "_" \o ToString(termIndex) \o "_" \o variant

\* the result of building one sub-expression: the exception thrown, if any, the
\* tokens returned and the assignments made to expr, in order
Sub(status, tokens, names, values) ==
  [status |-> status, tokens |-> tokens, names |-> names, values |-> values]

\* searchString.toLowerCase().split(/\s+/).filter(term => term.length > 0)
SearchTerms(value) == NonEmpty(SplitWhitespace(toLowerCase(JSString(value))))

\* the part of buildLikeExpression that follows the computing of searchTerms
LikeOfTerms(path, searchTerms, index, isNot) ==
  LET containsExpr(t) ==
        <<Contains(path, LikeValKey(index, t - 1, "l")), OR,
          Contains(path, LikeValKey(index, t - 1, "u")), OR,
          Contains(path, LikeValKey(index, t - 1, "o"))>>
      containsExpressions ==
        [t \in 1..Len(searchTerms) |->
           IF isNot THEN <<NOT, LP>> \o containsExpr(t) \o <<RP>> ELSE containsExpr(t)]
      writes ==
        [t \in 1..Len(searchTerms) |->
           <<Write(LikeValKey(index, t - 1, "l"),
                   toDynamoDBValue(JSStr(toLowerCase(searchTerms[t])))),
             Write(LikeValKey(index, t - 1, "u"),
                   toDynamoDBValue(JSStr(toUpperCase(searchTerms[t])))),
             Write(LikeValKey(index, t - 1, "o"),
                   toDynamoDBValue(JSStr(searchTerms[t])))>>]
  IN  IF Len(searchTerms) = 0
        THEN Sub("ok",
                 IF isNot THEN <<AttributeExists(path)>> ELSE <<AttributeNotExists(path)>>,
                 <<>>, <<>>)
        ELSE Sub("ok",
                 IF isNot THEN Join(containsExpressions, <<AND>>)
                 ELSE <<LP>> \o Join(containsExpressions, <<AND>>) \o <<RP>>,
                 <<>>, Join(writes, <<>>))

buildLikeExpression(path, value, index, isNot) ==
  LikeOfTerms(path, SearchTerms(value), index, isNot)

buildInExpression(path, value, index, isNot) ==
  LET values == IF value.t = "arr" THEN value.a ELSE <<value>>
      equalityChecks ==
        [j \in 1..Len(values) |-> <<Cmp(path, "=", InValKey(index, j - 1))>>]
      writes ==
        [j \in 1..Len(values) |-> Write(InValKey(index, j - 1), toDynamoDBValue(values[j]))]
      combinedExpression == <<LP>> \o Join(equalityChecks, <<OR>>) \o <<RP>>
  IN  Sub("ok", IF isNot THEN <<NOT>> \o combinedExpression ELSE combinedExpression,
          <<>>, writes)

buildBasicExpression(path, operator, value, index) ==
  LET valKey == BasicValKey(index)
      dynOp == OperatorMapGet(operator)
      writes == <<Write(valKey, toDynamoDBValue(value))>>
  IN  IF dynOp = Undefined
        THEN Sub(ValidationError, <<>>, <<>>, writes)
        ELSE Sub("ok", <<Cmp(path, dynOp, valKey)>>, <<>>, writes)

\* the name placeholders of a path: one per dot-separated part of the field
PathNames(pathParts, index) ==
  [p \in 1..Len(pathParts) |-> Write(NameKey(index, p - 1), pathParts[p])]

PathOf(pathParts, index) == [p \in 1..Len(pathParts) |-> NameKey(index, p - 1)]

\* the switch of buildSubExpression
DispatchOperator(path, operator, value, index) ==
  CASE operator \in {"like", "not like"} ->
         buildLikeExpression(path, value, index, operator = "not like")
    [] operator \in {"in", "not in"} ->
         buildInExpression(path, value, index, operator = "not in")
    [] OTHER -> buildBasicExpression(path, operator, value, index)

WithNames(sub, names) == Sub(sub.status, sub.tokens, names, sub.values)

SubOfParts(pathParts, operator, value, index) ==
  WithNames(DispatchOperator(PathOf(pathParts, index), operator, value, index),
            PathNames(pathParts, index))

buildSubExpression(field, operator, value, index) ==
  SubOfParts(SplitDot(field), operator, value, index)

\* PkIndex taking the last match, as findLastIndex would
PkIndexOfLast(filters, pk) ==
  LET hits == {i \in 1..Len(filters) :
                 filters[i].field = pk /\ filters[i].operator = "="}
  IN  IF hits = {} THEN 0 ELSE CHOOSE i \in hits : \A j \in hits : i >= j

\* remaining.findIndex(f => f.field === this.pkName && f.operator === "="),
\* 0 where the source has -1
PkIndex(filters, pk) ==
  LET hits == {i \in 1..Len(filters) :
                 filters[i].field = pk /\ filters[i].operator = "="}
  IN  IF hits = {} THEN 0 ELSE CHOOSE i \in hits : \A j \in hits : i <= j

\* remaining.splice(pkIndex, 1), or the list as it is when pkIndex is -1
Extracted(filters, pkIndex) ==
  IF pkIndex = 0
    THEN [found |-> FALSE, pkIndex |-> 0, remainingFilters |-> filters]
    ELSE [found |-> TRUE, pkIndex |-> pkIndex,
          remainingFilters |->
            SubSeq(filters, 1, pkIndex - 1) \o SubSeq(filters, pkIndex + 1, Len(filters))]

extractPartitionKeyFilter(filters, pk) == Extracted(filters, PkIndex(filters, pk))

\* the DynamoDBFilterExpression built so far, or the exception thrown.  The
\* placeholder maps are kept as the sequence of assignments made to them.
Expr(status, hasKey, key, hasFilter, filter, hasMaps, names, values) ==
  [status |-> status,
   hasKeyCondition |-> hasKey, KeyConditionExpression |-> key,
   hasFilter |-> hasFilter, FilterExpression |-> filter,
   hasMaps |-> hasMaps, names |-> names, values |-> values]

Thrown(error) == Expr(error, FALSE, <<>>, FALSE, <<>>, FALSE, <<>>, <<>>)

\* expr.FilterExpression = subExpressions.join(" AND "), with the assignments the
\* sub-expressions made, or the first exception one of them threw
JoinSubs(subs) ==
  Sub(FirstError([i \in 1..Len(subs) |-> subs[i].status]),
      Join([i \in 1..Len(subs) |-> subs[i].tokens], <<AND>>),
      Join([i \in 1..Len(subs) |-> subs[i].names], <<>>),
      Join([i \in 1..Len(subs) |-> subs[i].values], <<>>))

\* filters.map((filter, i) => this.buildSubExpression(expr, ..., i)) and the join
addFilterExpressions(filters) ==
  JoinSubs([i \in 1..Len(filters) |->
              buildSubExpression(filters[i].field, filters[i].operator,
                                 filters[i].value, i - 1)])

\* filters.forEach(filter => { validateFieldName(...); validateValue(...) })
ValidateFilters(filters) ==
  FirstError([i \in 1..Len(filters) |->
                FirstError(<<validateFieldName(filters[i].field),
                             validateValue(filters[i].value)>>)])

\* expr.KeyConditionExpression = "#pk = :pkVal" and its two placeholders
addPartitionKeyExpression(pkFilter) ==
  Sub("ok", <<Cmp(<<PkNameKey>>, "=", PkValKey)>>,
      <<Write(PkNameKey, pkFilter.field)>>,
      <<Write(PkValKey, toDynamoDBValue(pkFilter.value))>>)

NoSub == Sub("ok", <<>>, <<>>, <<>>)

\* the expression returned from the key part and the filter part
Assemble(hasKey, key, hasFilter, rest) ==
  IF rest.status # "ok" THEN Thrown(rest.status)
  ELSE Expr("ok", hasKey, key.tokens, hasFilter, rest.tokens, TRUE,
            key.names \o rest.names, key.values \o rest.values)

\* buildFilterExpression after its validation loop
BuildValidated(filters, ex) ==
  Assemble(ex.found,
           IF ex.found THEN addPartitionKeyExpression(filters[ex.pkIndex]) ELSE NoSub,
           Len(ex.remainingFilters) > 0,
           IF Len(ex.remainingFilters) > 0
             THEN addFilterExpressions(ex.remainingFilters) ELSE NoSub)

ThrownOr(valid, expr) == IF valid # "ok" THEN Thrown(valid) ELSE expr

buildFilterExpression(filters, pk) ==
  IF Len(filters) = 0 THEN Expr("ok", FALSE, <<>>, FALSE, <<>>, FALSE, <<>>, <<>>)
  ELSE ThrownOr(ValidateFilters(filters),
                BuildValidated(filters, extractPartitionKeyFilter(filters, pk)))

(***************************************************************************)
(* The store behind dynamoDBClient.send.  It reads an expression with NOT  *)
(* binding tighter than AND and AND tighter than OR, resolves name         *)
(* placeholders through ExpressionAttributeNames and value placeholders    *)
(* through ExpressionAttributeValues, and returns the items of the table   *)
(* that satisfy the key condition and the filter expression.               *)
(***************************************************************************)
\* a placeholder map as the object the assignments leave behind: the last
\* assignment to a key wins
MapOfWrites(writes) ==
  [key \in {writes[i].key : i \in DOMAIN writes} |->
     writes[CHOOSE i \in DOMAIN writes :
              writes[i].key = key /\ \A j \in DOMAIN writes : writes[j].key = key => j <= i].val]

Missing == Tagged("missing", <<>>, <<>>, <<>>)

\* the attribute `name` of a tagged map
AttributeOf(item, name) ==
  IF item.tag = "M" /\ \E i \in 1..Len(item.k) : item.k[i] = name
    THEN item.l[CHOOSE i \in 1..Len(item.k) : item.k[i] = name]
    ELSE Missing

\* the attribute a document path of name placeholders addresses in an item
RECURSIVE Resolve(_, _, _)
Resolve(item, path, names) ==
  IF Len(path) = 0 THEN item
  ELSE IF path[1] \notin DOMAIN names THEN Missing
  ELSE Resolve(AttributeOf(item, names[path[1]]), Tail(path), names)

\* the comparators of the store's expression language
StoreComparators == {"=", "<>", "<", "<=", ">", ">="}

Compare(attr, op, operand) ==
  IF attr.tag = "missing" THEN op = "<>"
  ELSE IF op = "=" THEN attr = operand
  ELSE IF op = "<>" THEN attr # operand
  ELSE IF attr.tag = "N" /\ operand.tag = "N"
    THEN LET x == Number(JSStr(attr.s)).n
             y == Number(JSStr(operand.s)).n
         IN  CASE op = "<" -> x < y
               [] op = "<=" -> x <= y
               [] op = ">" -> x > y
               [] OTHER -> x >= y
  ELSE FALSE

\* the value of one operand token for an item
Operand(tok, item, names, values) ==
  LET attr == Resolve(item, tok.path, names)
      operand == IF tok.val \in DOMAIN values THEN values[tok.val] ELSE Missing
  IN  CASE tok.kind = "attribute_exists" -> attr.tag # "missing"
        [] tok.kind = "attribute_not_exists" -> attr.tag = "missing"
        [] tok.kind = "contains" ->
             \/ attr.tag = "S" /\ operand.tag = "S" /\ Includes(attr.s, operand.s)
             \/ attr.tag = "L" /\ \E i \in 1..Len(attr.l) : attr.l[i] = operand
        [] OTHER -> Compare(attr, tok.op, operand)

\* an expression the store can read: every comparator is one of its own
WellFormed(tokens) ==
  \A i \in 1..Len(tokens) : tokens[i].kind = "cmp" => tokens[i].op \in StoreComparators

\* recursive descent over the tokens; each level returns the value read and the
\* position after it
ParseResult(v, p) == [v |-> v, p |-> p]

RECURSIVE ParseOr(_, _, _, _, _)
RECURSIVE ParseOrRest(_, _, _, _, _, _)
RECURSIVE ParseAnd(_, _, _, _, _)
RECURSIVE ParseAndRest(_, _, _, _, _, _)
RECURSIVE ParseNot(_, _, _, _, _)

ParseNot(tokens, p, item, names, values) ==
  IF p > Len(tokens) THEN ParseResult(FALSE, p)
  ELSE IF tokens[p].kind = "NOT"
    THEN LET r == ParseNot(tokens, p + 1, item, names, values)
         IN  ParseResult(~r.v, r.p)
  ELSE IF tokens[p].kind = "("
    THEN LET r == ParseOr(tokens, p + 1, item, names, values)
         IN  ParseResult(r.v, r.p + 1)
  ELSE ParseResult(Operand(tokens[p], item, names, values), p + 1)

ParseAndRest(left, tokens, p, item, names, values) ==
  IF p <= Len(tokens) /\ tokens[p].kind = "AND"
    THEN LET r == ParseNot(tokens, p + 1, item, names, values)
         IN  ParseAndRest(left /\ r.v, tokens, r.p, item, names, values)
    ELSE ParseResult(left, p)

ParseAnd(tokens, p, item, names, values) ==
  LET r == ParseNot(tokens, p, item, names, values)
  IN  ParseAndRest(r.v, tokens, r.p, item, names, values)

ParseOrRest(left, tokens, p, item, names, values) ==
  IF p <= Len(tokens) /\ tokens[p].kind = "OR"
    THEN LET r == ParseAnd(tokens, p + 1, item, names, values)
         IN  ParseOrRest(left \/ r.v, tokens, r.p, item, names, values)
    ELSE ParseResult(left, p)

ParseOr(tokens, p, item, names, values) ==
  LET r == ParseAnd(tokens, p, item, names, values)
  IN  ParseOrRest(r.v, tokens, r.p, item, names, values)

\* does the item satisfy the expression
Satisfies(item, tokens, names, values) == ParseOr(tokens, 1, item, names, values).v

\* the items a command returns: those of the table that satisfy its key
\* condition and its filter expression
StoreItems(items, input) ==
  SelectSeq(items, LAMBDA item :
    /\ input.hasKeyCondition =>
         Satisfies(item, input.KeyConditionExpression,
                   input.ExpressionAttributeNames, input.ExpressionAttributeValues)
    /\ input.hasFilter =>
         Satisfies(item, input.FilterExpression,
                   input.ExpressionAttributeNames, input.ExpressionAttributeValues))

\* a command the store can evaluate
StoreAccepts(input) ==
  /\ input.hasKeyCondition => WellFormed(input.KeyConditionExpression)
  /\ input.hasFilter => WellFormed(input.FilterExpression)

(***************************************************************************)
(* DynamoDBService (the variant with the client-side sort)                 *)
(***************************************************************************)
\* the instance configuration: new DynamoDBService(tableName) with the default pkName
tableName == <<"u", "s", "e", "r", "s">>

pkName == <<"i", "d">>

\* (page - 1) * limit over numbers that Math.max returned
TimesPred(page, limit) ==
  IF page.t = "nan" \/ limit.t = "nan" THEN JSNaN ELSE JSNum((page.n - 1) * limit.n)

\* offset < 0 for a value of type number
IsNegative(v) == v.t \in {"num", "half"} /\ v.n < 0

calculatePaginationValues(pagination) ==
  LET page == MathMax(1, MathFloor(Default(pagination.page, JSNum(1))))
      limit == MathMax(0, MathFloor(Default(pagination.limit, JSNum(100))))
      offset == IF ~IsNumberType(pagination.offset) \/ IsNegative(pagination.offset)
                  THEN TimesPred(page, limit)
                  ELSE pagination.offset
  IN  [limit |-> limit, offset |-> offset]

\* a QueryCommandInput or ScanCommandInput; a has-flag tells whether the property is set
Params(hasKey, key, hasFilter, filter, hasNames, names, hasValues, values, hasSIF, sif) ==
  [TableName |-> tableName,
   hasKeyCondition |-> hasKey, KeyConditionExpression |-> key,
   hasFilter |-> hasFilter, FilterExpression |-> filter,
   hasNames |-> hasNames, ExpressionAttributeNames |-> names,
   hasValues |-> hasValues, ExpressionAttributeValues |-> values,
   hasScanIndexForward |-> hasSIF, ScanIndexForward |-> sif]

EmptyMap == MapOfWrites(<<>>)

\* { TableName: this.tableName }
TableOnly == Params(FALSE, <<>>, FALSE, <<>>, FALSE, EmptyMap, FALSE, EmptyMap, FALSE, TRUE)

SortKeyName == "#sortKey"

\* if (pagination?.sortBy): a non-empty string
Truthy(v) ==
  CASE v.t = "str" -> Len(v.s) > 0
    [] v.t = "num" -> v.n # 0
    [] v.t \in {"undefined", "null", "nan"} -> FALSE
    [] OTHER -> TRUE

\* AttachesSort with the sort directive outside the Query branch
AttachesSortOnScanToo(expr, pagination) == Truthy(pagination.sortBy)

\* the sort directive of the Query branch: is it attached
AttachesSort(expr, pagination) == expr.hasKeyCondition /\ Truthy(pagination.sortBy)

\* pagination.sortDirection !== 'desc'
ScanForward(pagination) == pagination.sortDirection # JSStr(<<"d", "e", "s", "c">>)

\* the params of buildQueryParams once the sort directive is decided
ParamsOf(expr, pagination, sorts, sortNames) ==
  Params(expr.hasKeyCondition,
         IF expr.hasKeyCondition THEN expr.KeyConditionExpression ELSE <<>>,
         expr.hasFilter,
         IF expr.hasFilter THEN expr.FilterExpression ELSE <<>>,
         sorts \/ expr.hasMaps,
         IF expr.hasMaps THEN MapOfWrites(expr.names) @@ sortNames ELSE sortNames,
         expr.hasMaps,
         IF expr.hasMaps THEN MapOfWrites(expr.values) ELSE EmptyMap,
         sorts,
         IF sorts THEN ScanForward(pagination) ELSE TRUE)

Built(status, params) == [status |-> status, params |-> IF status = "ok" THEN params ELSE TableOnly]

\* returns the status (an exception of validateFieldName, or "ok") and the params
buildQueryParams(expr, pagination) ==
  IF AttachesSort(expr, pagination)
    THEN Built(validateFieldName(pagination.sortBy.s),
               ParamsOf(expr, pagination, TRUE, SortKeyName :> pagination.sortBy.s))
    ELSE Built("ok", ParamsOf(expr, pagination, FALSE, EmptyMap))

Prepared(status, params, limit, offset, pagination) ==
  [status |-> status, params |-> params, limit |-> limit, offset |-> offset,
   pagination |-> pagination]

IsZero(v) == v.t = "num" /\ v.n = 0

PreparedOf(built, pv, pagination) ==
  Prepared(built.status, built.params, pv.limit, pv.offset, pagination)

\* prepareQueryParameters from the results of the calls it makes, in their order
PrepareFrom(q, valid, pv, expr) ==
  IF valid # "ok" THEN Prepared(valid, TableOnly, JSNum(0), JSNum(0), q.pagination)
  ELSE IF IsZero(pv.limit) THEN Prepared("ok", TableOnly, JSNum(0), JSNum(0), q.pagination)
  ELSE IF expr.status # "ok"
    THEN Prepared(expr.status, TableOnly, JSNum(0), JSNum(0), q.pagination)
  ELSE PreparedOf(buildQueryParams(expr, q.pagination), pv, q.pagination)

prepareQueryParameters(q) ==
  PrepareFrom(q, validatePagination(q.pagination),
              calculatePaginationValues(q.pagination),
              buildFilterExpression(q.filters, pkName))

\* "KeyConditionExpression" in params ? new QueryCommand(params) : new ScanCommand(params)
CommandFor(params) ==
  [command |-> IF params.hasKeyCondition THEN "Query" ELSE "Scan", input |-> params]

\* String.prototype.localeCompare: the letters decide first, whatever their case,
\* then lower case goes before upper case; -1, 0 or 1
CollationOrder ==
  <<"_", "-", ",", ";", ":", ".", "\"", "(", ")", "[", "]", "{", "}", "$">>
    \o DigitChars \o LowerAlpha

CharRank(c) ==
  IF c \in Range(CollationOrder)
    THEN CHOOSE i \in DOMAIN CollationOrder : CollationOrder[i] = c
    ELSE 0

\* lexicographic order of two sequences of ranks
RECURSIVE LexCompare(_, _)
LexCompare(a, b) ==
  IF Len(a) = 0 /\ Len(b) = 0 THEN 0
  ELSE IF Len(a) = 0 THEN -1
  ELSE IF Len(b) = 0 THEN 1
  ELSE IF a[1] < b[1] THEN -1
  ELSE IF a[1] > b[1] THEN 1
  ELSE LexCompare(Tail(a), Tail(b))

CaseRank(c) == IF c \in Range(UpperAlpha) THEN 1 ELSE 0

localeCompare(a, b) ==
  LET primary == LexCompare([i \in 1..Len(a) |-> CharRank(ToLowerChar(a[i]))],
                            [i \in 1..Len(b) |-> CharRank(ToLowerChar(b[i]))])
  IN  IF primary # 0 THEN primary
      ELSE LexCompare([i \in 1..Len(a) |-> CaseRank(a[i])],
                      [i \in 1..Len(b) |-> CaseRank(b[i])])

\* a[sortKey] ? fromDynamoDBValue(a[sortKey]) : ""
SortValue(item, sortKey) ==
  IF AttributeOf(item, sortKey).tag = "missing"
    THEN JSStr(<<>>)
    ELSE fromDynamoDBValue(AttributeOf(item, sortKey))

Sign(n) == IF n < 0 THEN -1 ELSE IF n > 0 THEN 1 ELSE 0

\* SortComparator comparing numbers by their decimal characters
SortComparatorOfStrings(a, b, sortKey, scanForward) ==
  LET ascending == localeCompare(JSString(SortValue(a, sortKey)),
                                 JSString(SortValue(b, sortKey)))
  IN  IF scanForward THEN ascending ELSE 0 - ascending

\* the comparator handed to Array.prototype.sort; only its sign matters, and a
\* NaN result counts as 0
SortComparator(a, b, sortKey, scanForward) ==
  LET aVal == SortValue(a, sortKey)
      bVal == SortValue(b, sortKey)
      ascending ==
        IF aVal.t = "str" /\ bVal.t = "str" THEN localeCompare(aVal.s, bVal.s)
        ELSE IF IsNumberType(aVal) /\ IsNumberType(bVal)
          THEN IF aVal.t = "nan" \/ bVal.t = "nan" THEN 0
               ELSE Sign((2 * aVal.n + (IF aVal.t = "half" THEN 1 ELSE 0))
                         - (2 * bVal.n + (IF bVal.t = "half" THEN 1 ELSE 0)))
        ELSE localeCompare(JSString(aVal), JSString(bVal))
  IN  IF scanForward THEN ascending ELSE 0 - ascending

\* a comparator Array.prototype.sort can rely on: consistent over these items
ConsistentComparator(items, sortKey, scanForward) ==
  LET c(i, j) == SortComparator(items[i], items[j], sortKey, scanForward)
      D == DOMAIN items
  IN  /\ \A i, j \in D : c(i, j) = 0 - c(j, i)
      /\ \A i, j, k \in D : c(i, j) <= 0 /\ c(j, k) <= 0 => c(i, k) <= 0
      /\ \A i, j, k \in D : c(i, j) = 0 /\ c(j, k) = 0 => c(i, k) = 0

\* the stable sort: each item goes behind the items that do not come after it
RECURSIVE InsertSorted(_, _, _, _)
InsertSorted(x, sorted, sortKey, scanForward) ==
  IF Len(sorted) = 0 THEN <<x>>
  ELSE IF SortComparator(x, sorted[1], sortKey, scanForward) < 0 THEN <<x>> \o sorted
  ELSE <<sorted[1]>> \o InsertSorted(x, Tail(sorted), sortKey, scanForward)

RECURSIVE StableSort(_, _, _)
StableSort(items, sortKey, scanForward) ==
  IF Len(items) = 0 THEN <<>>
  ELSE InsertSorted(items[Len(items)],
                    StableSort(SubSeq(items, 1, Len(items) - 1), sortKey, scanForward),
                    sortKey, scanForward)

Rearrangements(items) ==
  {[i \in DOMAIN items |-> items[f[i]]] :
     f \in {g \in [DOMAIN items -> DOMAIN items] :
              \A i, j \in DOMAIN items : g[i] = g[j] => i = j}}

\* the lists [...items].sort(comparator) can return: the stable order when the
\* comparator is consistent, an implementation-defined order otherwise
ClientSort(items, pagination) ==
  IF ~Truthy(pagination.sortBy) THEN {items}
  ELSE IF ConsistentComparator(items, pagination.sortBy.s, ScanForward(pagination))
    THEN {StableSort(items, pagination.sortBy.s, ScanForward(pagination))}
  ELSE Rearrangements(items)

\* processResults slicing to limit rather than to offset + limit
processResultsUpToLimit(items, limit, offset) ==
  IF IsZero(limit) THEN <<>>
  ELSE IF offset.t = "num" /\ offset.n >= Len(items) THEN <<>>
  ELSE IF limit.t # "num" \/ offset.t # "num" THEN <<>>
  ELSE LET last == IF limit.n < Len(items) THEN limit.n ELSE Len(items)
       IN  [i \in 1..(last - offset.n) |-> mapDynamoDBItemToType(items[offset.n + i])]

\* items.slice(offset, offset + limit).map(mapDynamoDBItemToType)
processResults(items, limit, offset) ==
  IF IsZero(limit) THEN <<>>
  ELSE IF offset.t = "num" /\ offset.n >= Len(items) THEN <<>>
  ELSE IF limit.t # "num" \/ offset.t # "num" THEN <<>>
  ELSE LET endIndex == offset.n + limit.n
           last == IF endIndex < Len(items) THEN endIndex ELSE Len(items)
       IN  [i \in 1..(last - offset.n) |-> mapDynamoDBItemToType(items[offset.n + i])]

\* handleError logging a message of its own in place of the error
handleErrorWithoutCause(error) ==
  [label |-> "Error in DynamoDB operation:", error |-> ""]

\* handleError: what console.error is called with
handleError(error) ==
  IF error = ValidationError
    THEN [label |-> "Validation error:", error |-> error]
    ELSE [label |-> "Error in DynamoDB operation:", error |-> error]

\* the errors dynamoDBClient.send can reject with
StoreError == "StoreError"

ThrottlingError == "ProvisionedThroughputExceededException"

StoreErrors == {StoreError, ThrottlingError}

Pending == [status |-> "pending", error |-> "", data |-> <<>>, total |-> 0]

Rejected(error) == [status |-> "rejected", error |-> error, data |-> <<>>, total |-> 0]

Resolved(data, total) == [status |-> "resolved", error |-> "", data |-> data, total |-> total]

\* thrown is the error send rejected with, "" while it has not
NoLocals ==
  [limit |-> JSNum(0), offset |-> JSNum(0), items |-> <<>>, sorted |-> <<>>, thrown |-> ""]

(***************************************************************************)
(* Bounds and the inputs drawn within them                                 *)
(***************************************************************************)
\* the longest filter list of a query
MaxFilters == 2

\* the most items the table holds
MaxItems == 3

\* the largest page, limit and offset handed to calculatePaginationValues
MaxNum == 11

\* the most elements of an array value handed to validateValue
MaxElems == 2

Filter(field, operator, value) == [field |-> field, operator |-> operator, value |-> value]

Str_a == JSStr(<<"a">>)

Str_b == JSStr(<<"b">>)

F_name == <<"n", "a", "m", "e">>

F_age == <<"a", "g", "e">>

F_nested == <<"a", ".", "b">>

F_unsafe == <<"$", "x">>

\* sequences over S of length at most n
SeqsUpTo(S, n) == UNION {[1..m -> S] : m \in 0..n}

\* the i-th item of the table: ids alternate, names and ages come unsorted
StoredNames == << <<"b">>, <<"a">>, <<"a", " ", "b">>, <<"B", "a">> >>

StoredAges == <<30, 10, 20, 5>>

StoredItem(i) ==
  Tagged("M", <<>>,
         <<Tagged("S", <<DigitChars[((i - 1) % 2) + 2]>>, <<>>, <<>>),
           Tagged("S", StoredNames[((i - 1) % 4) + 1], <<>>, <<>>),
           Tagged("N", IntChars(StoredAges[((i - 1) % 4) + 1]), <<>>, <<>>)>>,
         <<pkName, F_name, F_age>>)

Tables == {[i \in 1..n |-> StoredItem(i)] : n \in 0..MaxItems}

\* predicates of the queries: a partition-key equality, an equality and a like on
\* another attribute, an unsafe field name and an unsafe value
CallPredicates ==
  {Filter(pkName, "=", JSStr(<<"1">>)),
   Filter(F_name, "=", Str_a),
   Filter(F_name, "like", JSStr(<<"a", " ", "b">>)),
   Filter(F_unsafe, "=", Str_a),
   Filter(F_name, "=", JSStr(<<"$", "n", "e">>))}

CallPaginations ==
  {Pagination(page, JSUndefined, limit, offset, sortBy, sortDirection) :
     page \in {JSUndefined, JSNum(2)},
     limit \in {JSUndefined, JSNum(0), JSNum(1)},
     offset \in {JSUndefined, JSNum(1)},
     sortBy \in {JSUndefined, JSStr(F_name), JSStr(F_unsafe)},
     sortDirection \in {JSUndefined, JSStr(<<"d", "e", "s", "c">>)}}

Queries ==
  {[filters |-> filters, pagination |-> pagination] :
     filters \in SeqsUpTo(CallPredicates, MaxFilters), pagination \in CallPaginations}

NoQuery ==
  [filters |-> <<>>,
   pagination |-> Pagination(JSUndefined, JSUndefined, JSUndefined, JSUndefined,
                             JSUndefined, JSUndefined)]

(***************************************************************************)
(* One call of fetchWithFiltersAndPagination.  The call runs without       *)
(* interruption up to its only await, that of dynamoDBClient.send, and     *)
(* from the settling of send to its own end.                               *)
(***************************************************************************)
\* the result of a function not yet applied, and of one applied
NotReturned == [done |-> FALSE]

Returned(value) == [done |-> TRUE, value |-> value]

NoFunction == fn = "none" /\ arg = <<>> /\ ret = NotReturned

Init ==
  /\ pc = "idle"
  /\ query \in Queries
  /\ table \in Tables
  /\ locals = NoLocals
  /\ sent = <<>>
  /\ logs = <<>>
  /\ outcome = Pending
  /\ NoFunction

\* prepareQueryParameters throws: handleError logs, the call rejects
CallRejects ==
  /\ pc = "idle"
  /\ \E p \in {prepareQueryParameters(query)} :
       /\ p.status # "ok"
       /\ logs' = Append(logs, handleError(p.status))
       /\ outcome' = Rejected(p.status)
  /\ pc' = "rejected"
  /\ UNCHANGED <<query, table, locals, sent, fn, arg, ret>>

\* prepareQueryParameters returns: executeQuery hands its command to send and waits
CallSends ==
  /\ pc = "idle"
  /\ \E p \in {prepareQueryParameters(query)} :
       /\ p.status = "ok"
       /\ sent' = Append(sent, CommandFor(p.params))
       /\ locals' = [locals EXCEPT !.limit = p.limit, !.offset = p.offset]
  /\ pc' = "awaitSend"
  /\ UNCHANGED <<query, table, logs, outcome, fn, arg, ret>>

\* send resolves: the client-side sort, the slice, the page
SendResolves ==
  /\ pc = "awaitSend"
  /\ StoreAccepts(sent[Len(sent)].input)
  /\ \E items \in {StoreItems(table, sent[Len(sent)].input)} :
       \E sorted \in ClientSort(items, query.pagination) :
         /\ locals' = [locals EXCEPT !.items = items, !.sorted = sorted]
         /\ outcome' = Resolved(processResults(sorted, locals.limit, locals.offset),
                                Len(sorted))
  /\ pc' = "resolved"
  /\ UNCHANGED <<query, table, sent, logs, fn, arg, ret>>

\* SendRejects sending the command again after the first rejection
SendRejectsAndRetries ==
  /\ pc = "awaitSend"
  /\ \E e \in StoreErrors :
       /\ locals' = [locals EXCEPT !.thrown = e]
       /\ logs' = Append(logs, handleError(e))
       /\ IF Len(sent) < 2
            THEN pc' = "awaitSend" /\ sent' = Append(sent, sent[1]) /\ outcome' = outcome
            ELSE pc' = "rejected" /\ sent' = sent /\ outcome' = Rejected(e)
  /\ UNCHANGED <<query, table, fn, arg, ret>>

\* send rejects: handleError logs, the call rejects with the same error
SendRejects ==
  /\ pc = "awaitSend"
  /\ pc' = "rejected"
  /\ \E e \in StoreErrors :
       /\ locals' = [locals EXCEPT !.thrown = e]
       /\ logs' = Append(logs, handleError(e))
       /\ outcome' = Rejected(e)
  /\ UNCHANGED <<query, table, sent, fn, arg, ret>>

Next == CallRejects \/ CallSends \/ SendResolves \/ SendRejects

Spec == Init /\ [][Next]_vars

(***************************************************************************)
(* The second DynamoDBService of the source, whose executeQuery returns    *)
(* the items as the store sent them.  Its prepareQueryParameters calls     *)
(* buildQueryParams(expr) without the pagination.                          *)
(***************************************************************************)
\* the pagination parameter of buildQueryParams when it is not passed
AbsentPagination ==
  Pagination(JSUndefined, JSUndefined, JSUndefined, JSUndefined, JSUndefined, JSUndefined)

PrepareFromWithoutSort(q, valid, pv, expr) ==
  IF valid # "ok" THEN Prepared(valid, TableOnly, JSNum(0), JSNum(0), q.pagination)
  ELSE IF IsZero(pv.limit) THEN Prepared("ok", TableOnly, JSNum(0), JSNum(0), q.pagination)
  ELSE IF expr.status # "ok"
    THEN Prepared(expr.status, TableOnly, JSNum(0), JSNum(0), q.pagination)
  ELSE PreparedOf(buildQueryParams(expr, AbsentPagination), pv, q.pagination)

prepareQueryParametersWithoutSort(q) ==
  PrepareFromWithoutSort(q, validatePagination(q.pagination),
                         calculatePaginationValues(q.pagination),
                         buildFilterExpression(q.filters, pkName))

CallRejectsWithoutSort ==
  /\ pc = "idle"
  /\ \E p \in {prepareQueryParametersWithoutSort(query)} :
       /\ p.status # "ok"
       /\ logs' = Append(logs, handleError(p.status))
       /\ outcome' = Rejected(p.status)
  /\ pc' = "rejected"
  /\ UNCHANGED <<query, table, locals, sent, fn, arg, ret>>

CallSendsWithoutSort ==
  /\ pc = "idle"
  /\ \E p \in {prepareQueryParametersWithoutSort(query)} :
       /\ p.status = "ok"
       /\ sent' = Append(sent, CommandFor(p.params))
       /\ locals' = [locals EXCEPT !.limit = p.limit, !.offset = p.offset]
  /\ pc' = "awaitSend"
  /\ UNCHANGED <<query, table, logs, outcome, fn, arg, ret>>

\* send resolves: return response.Items || [], the slice, the page
SendResolvesWithoutSort ==
  /\ pc = "awaitSend"
  /\ StoreAccepts(sent[Len(sent)].input)
  /\ \E items \in {StoreItems(table, sent[Len(sent)].input)} :
       /\ locals' = [locals EXCEPT !.items = items, !.sorted = items]
       /\ outcome' = Resolved(processResults(items, locals.limit, locals.offset),
                              Len(items))
  /\ pc' = "resolved"
  /\ UNCHANGED <<query, table, sent, logs, fn, arg, ret>>

NextWithoutSort ==
  CallRejectsWithoutSort \/ CallSendsWithoutSort \/ SendResolvesWithoutSort \/ SendRejects

SpecWithoutSort == Init /\ [][NextWithoutSort]_vars

(***************************************************************************)
(* Several calls in flight on one DynamoDBService.  A call runs from one   *)
(* await to the next without interruption: it awaits the promise of        *)
(* prepareQueryParameters, the promise of send inside executeQuery, and    *)
(* the promise of executeQuery.  pc, query, locals, sent and outcome are   *)
(* kept per call; the table, the console and the fields of the instance    *)
(* (arg) are common to the calls.                                          *)
(***************************************************************************)
Calls == {1, 2}

\* this.tableName and this.pkName as the constructor set them
Instance == [tableName |-> tableName, pkName |-> pkName]

\* a sorted page of one item, the rest of the items from the second on, and
\* the count alone
ConcurrentPaginations ==
  {Pagination(JSUndefined, JSUndefined, JSNum(1), JSUndefined, JSStr(F_name), JSUndefined),
   Pagination(JSUndefined, JSUndefined, JSUndefined, JSNum(1), JSUndefined, JSUndefined),
   Pagination(JSUndefined, JSUndefined, JSNum(0), JSUndefined, JSUndefined, JSUndefined)}

ConcurrentQueries ==
  {[filters |-> filters, pagination |-> pagination] :
     filters \in SeqsUpTo({Filter(pkName, "=", JSStr(<<"1">>)), Filter(F_unsafe, "=", Str_a)}, 1),
     pagination \in ConcurrentPaginations}

\* the locals of one call that live across its awaits
CallLocals(prepared, sorted, thrown) ==
  [prepared |-> prepared, sorted |-> sorted, thrown |-> thrown]

InitConcurrent ==
  /\ pc = [c \in Calls |-> "idle"]
  /\ query \in [Calls -> ConcurrentQueries]
  /\ table \in Tables
  /\ locals = [c \in Calls |->
                 CallLocals(Prepared("ok", TableOnly, JSNum(0), JSNum(0), query[c].pagination),
                            <<>>, "")]
  /\ sent = [c \in Calls |-> <<>>]
  /\ logs = <<>>
  /\ outcome = [c \in Calls |-> Pending]
  /\ fn = "DynamoDBService" /\ arg = Instance /\ ret = NotReturned

\* the call starts: prepareQueryParameters runs and its promise is awaited
AwaitPrepare(c) ==
  /\ pc[c] = "idle"
  /\ \E p \in {prepareQueryParameters(query[c])} :
       locals' = [locals EXCEPT ![c].prepared = p]
  /\ pc' = [pc EXCEPT ![c] = "prepared"]
  /\ UNCHANGED <<query, table, sent, logs, outcome, fn, arg, ret>>

\* the promise of prepareQueryParameters was rejected: catch, handleError, throw
PrepareRejected(c) ==
  /\ pc[c] = "prepared"
  /\ locals[c].prepared.status # "ok"
  /\ logs' = Append(logs, handleError(locals[c].prepared.status))
  /\ outcome' = [outcome EXCEPT ![c] = Rejected(locals[c].prepared.status)]
  /\ pc' = [pc EXCEPT ![c] = "rejected"]
  /\ UNCHANGED <<query, table, locals, sent, fn, arg, ret>>

\* ExecuteQuery sending the command built for the other call
ExecuteQueryOfOther(c) ==
  /\ pc[c] = "prepared"
  /\ locals[c].prepared.status = "ok"
  /\ \E d \in Calls \ {c} :
       sent' = [sent EXCEPT ![c] = Append(@, CommandFor(locals[d].prepared.params))]
  /\ pc' = [pc EXCEPT ![c] = "awaitSend"]
  /\ UNCHANGED <<query, table, locals, logs, outcome, fn, arg, ret>>

\* the promise was fulfilled: executeQuery sends its command and awaits send
ExecuteQuery(c) ==
  /\ pc[c] = "prepared"
  /\ locals[c].prepared.status = "ok"
  /\ sent' = [sent EXCEPT ![c] = Append(@, CommandFor(locals[c].prepared.params))]
  /\ pc' = [pc EXCEPT ![c] = "awaitSend"]
  /\ UNCHANGED <<query, table, locals, logs, outcome, fn, arg, ret>>

\* send resolves: executeQuery sorts and its promise is awaited
SendResolved(c) ==
  /\ pc[c] = "awaitSend"
  /\ StoreAccepts(sent[c][Len(sent[c])].input)
  /\ \E items \in {StoreItems(table, sent[c][Len(sent[c])].input)} :
       \E sorted \in ClientSort(items, locals[c].prepared.pagination) :
         locals' = [locals EXCEPT ![c].sorted = sorted]
  /\ pc' = [pc EXCEPT ![c] = "executed"]
  /\ UNCHANGED <<query, table, sent, logs, outcome, fn, arg, ret>>

\* send rejects: executeQuery rejects, catch, handleError, throw
SendRejected(c) ==
  /\ pc[c] = "awaitSend"
  /\ \E e \in StoreErrors :
       /\ locals' = [locals EXCEPT ![c].thrown = e]
       /\ logs' = Append(logs, handleError(e))
       /\ outcome' = [outcome EXCEPT ![c] = Rejected(e)]
  /\ pc' = [pc EXCEPT ![c] = "rejected"]
  /\ UNCHANGED <<query, table, sent, fn, arg, ret>>

\* the promise of executeQuery was fulfilled: total, processResults, return
ReturnPage(c) ==
  /\ pc[c] = "executed"
  /\ outcome' = [outcome EXCEPT ![c] =
                   Resolved(processResults(locals[c].sorted, locals[c].prepared.limit,
                                           locals[c].prepared.offset),
                            Len(locals[c].sorted))]
  /\ pc' = [pc EXCEPT ![c] = "resolved"]
  /\ UNCHANGED <<query, table, locals, sent, logs, fn, arg, ret>>

NextConcurrent ==
  \E c \in Calls :
    \/ AwaitPrepare(c)
    \/ PrepareRejected(c)
    \/ ExecuteQuery(c)
    \/ SendResolved(c)
    \/ SendRejected(c)
    \/ ReturnPage(c)

SpecConcurrent == InitConcurrent /\ [][NextConcurrent]_vars

(***************************************************************************)
(* The functions on their own: fn names the function, arg is its argument  *)
(* and ret its result once it has been applied.                            *)
(***************************************************************************)
NoCall ==
  /\ pc = "idle"
  /\ query = NoQuery
  /\ table = <<>>
  /\ locals = NoLocals
  /\ sent = <<>>
  /\ logs = <<>>
  /\ outcome = Pending

\* the predicates handed to the expression builder: every operator family, one
\* and several search terms and elements, a dotted field, operators that
\* operatorMap does not list, and two equalities on the partition key
BuilderPredicates ==
  {Filter(pkName, "=", JSStr(<<"1">>)),
   Filter(pkName, "=", JSStr(<<"2">>)),
   Filter(pkName, "like", JSStr(<<"1">>)),
   Filter(F_name, "=", Str_a),
   Filter(F_name, "!=", JSNum(1)),
   Filter(F_name, "like", Str_a),
   Filter(F_name, "like", JSStr(<<"a", " ", "B">>)),
   Filter(F_name, "like", JSStr(<<" ">>)),
   Filter(F_name, "not like", JSStr(<<"a", " ", "B">>)),
   Filter(F_name, "in", JSArr(<<Str_a, Str_b>>)),
   Filter(F_name, "not in", Str_a),
   Filter(F_nested, "=", Str_a),
   Filter(F_nested, "like", JSStr(<<"B", " ", "a">>)),
   Filter(F_name, "constructor", Str_a),
   Filter(F_name, "toString", Str_a),
   Filter(F_name, "~", Str_a),
   Filter(F_unsafe, "=", Str_a),
   Filter(F_name, "=", JSNull)}

InitBuilder ==
  /\ NoCall
  /\ fn \in {"buildFilterExpression", "extractPartitionKeyFilter"}
  /\ arg \in SeqsUpTo(BuilderPredicates, MaxFilters)
  /\ ret = NotReturned

BuildFilterExpression ==
  /\ fn = "buildFilterExpression"
  /\ ~ret.done
  /\ ret' = Returned(buildFilterExpression(arg, pkName))
  /\ UNCHANGED <<callVars, fn, arg>>

ExtractPartitionKeyFilter ==
  /\ fn = "extractPartitionKeyFilter"
  /\ ~ret.done
  /\ ret' = Returned(extractPartitionKeyFilter(arg, pkName))
  /\ UNCHANGED <<callVars, fn, arg>>

NextBuilder == BuildFilterExpression \/ ExtractPartitionKeyFilter

SpecBuilder == InitBuilder /\ [][NextBuilder]_vars

\* the values handed to validateValue: scalars, arrays of them, objects with one
\* property, and arrays holding one array or object
ValueAtoms ==
  {JSNull, JSUndefined, Str_a, JSStr(<<"$", "n", "e">>), JSNum(1),
   JSStr(<<"x", "$", "O", "r">>), JSStr(<<"C", "o", "n", "s", "t", "r", "u", "c", "t", "o", "r">>)}

ValueArrays == {JSArr(a) : a \in SeqsUpTo(ValueAtoms, MaxElems)}

ValueObjects ==
  {JSObj(<<k>>, <<v>>) :
     k \in {<<"k">>, <<"$", "g", "t">>, <<"_", "_", "P", "R", "O", "T", "O", "_", "_">>,
            <<"$", "w", "h", "e", "r", "e">>},
     v \in ValueAtoms}

ValidatorValues ==
  ValueAtoms \cup ValueArrays \cup ValueObjects
    \cup {JSArr(<<v>>) : v \in ValueArrays \cup ValueObjects}
    \cup {JSObj(<<<<"k">>>>, <<v>>) : v \in ValueArrays \cup ValueObjects}

\* a string of n characters c
Repeat(c, n) == [i \in 1..n |-> c]

\* n parts "a" joined by dots
Dotted(n) == Join([i \in 1..n |-> <<"a">>], <<".">>)

\* the field names handed to validateFieldName: plain and dotted names, the
\* unsafe patterns in several cases, parts that break the identifier pattern,
\* and names at and beyond the limits of depth and of part length
FieldNames ==
  {<<>>, F_name, <<"u", "s", "e", "r", ".", "n", "a", "m", "e">>, <<"a", "_", "1">>,
   <<"_", "_", "p", "r", "o", "t", "o", "_", "_">>,
   <<"C", "o", "n", "s", "t", "r", "u", "c", "t", "o", "r">>,
   <<"a", ".", "p", "r", "o", "t", "o", "t", "y", "p", "e">>,
   F_unsafe, <<"a", ";", "b">>, <<"d", "r", "o", "p", "s">>, <<"D", "e", "l", "e", "t", "e", "d">>,
   <<"i", "n", "s", "e", "r", "t">>, <<"U", "P", "D", "A", "T", "E">>,
   <<"1", "a">>, <<"_", "a">>, <<"a", " ", "b">>, <<"a", "-", "b">>, <<"a", ".">>, <<".", "a">>,
   <<"a", ".", ".", "b">>, <<".">>,
   Dotted(19), Dotted(20), Dotted(21),
   Repeat("a", 255), Repeat("a", 256), <<"b", ".">> \o Repeat("a", 256),
   Repeat("a", 255) \o <<".", "b">>}

InitValidator ==
  /\ NoCall
  /\ \/ fn = "validateValue" /\ arg \in ValidatorValues
     \/ fn = "validateFieldName" /\ arg \in FieldNames
  /\ ret = NotReturned

ValidateFieldName ==
  /\ fn = "validateFieldName"
  /\ ~ret.done
  /\ ret' = Returned(validateFieldName(arg))
  /\ UNCHANGED <<callVars, fn, arg>>

ValidateValue ==
  /\ fn = "validateValue"
  /\ ~ret.done
  /\ ret' = Returned(validateValue(arg))
  /\ UNCHANGED <<callVars, fn, arg>>

NextValidator == ValidateValue \/ ValidateFieldName

SpecValidator == InitValidator /\ [][NextValidator]_vars

\* the page, limit and offset handed to validatePagination and
\* calculatePaginationValues: absent, null, integers, a numeric string, a fraction
PaginationValues ==
  {JSUndefined, JSNull, JSStr(<<"3">>), JSHalf(1)}
    \cup {JSNum(n) : n \in (0 - MaxNum)..MaxNum}

\* the fields calculatePaginationValues does not read, for validatePagination
OtherFieldValues == {JSUndefined, JSNull, JSNum(10), JSHalf(1), JSStr(<<"x">>)}

PaginationInputs ==
  {Pagination(page, JSUndefined, limit, offset, JSUndefined, JSUndefined) :
     page \in PaginationValues, limit \in PaginationValues, offset \in PaginationValues}
    \cup
  {Pagination(page, size, limit, JSUndefined, sortBy, sortDirection) :
     page \in {JSUndefined, JSNum(2), JSHalf(1)},
     size \in OtherFieldValues,
     limit \in {JSUndefined, JSNum(1), JSStr(<<"x">>)},
     sortBy \in OtherFieldValues,
     sortDirection \in {JSUndefined, JSHalf(1)}}

InitPagination ==
  /\ NoCall
  /\ fn \in {"validatePagination", "calculatePaginationValues"}
  /\ arg \in PaginationInputs
  /\ ret = NotReturned

ValidatePagination ==
  /\ fn = "validatePagination"
  /\ ~ret.done
  /\ ret' = Returned(validatePagination(arg))
  /\ UNCHANGED <<callVars, fn, arg>>

\* as prepareQueryParameters calls it: after validatePagination has accepted
CalculatePaginationValues ==
  /\ fn = "calculatePaginationValues"
  /\ ~ret.done
  /\ validatePagination(arg) = "ok"
  /\ ret' = Returned(calculatePaginationValues(arg))
  /\ UNCHANGED <<callVars, fn, arg>>

NextPagination == ValidatePagination \/ CalculatePaginationValues

SpecPagination == InitPagination /\ [][NextPagination]_vars

\* the client-side sort of executeQuery on its own: arg holds the items of
\* the response and the pagination
Aged(name, age) ==
  Tagged("M", <<>>, <<Tagged("S", name, <<>>, <<>>), age>>, <<F_name, F_age>>)

SortItems ==
  {Aged(<<"b">>, Tagged("N", IntChars(5), <<>>, <<>>)),
   Aged(<<"a">>, Tagged("N", IntChars(10), <<>>, <<>>)),
   Aged(<<"C">>, Tagged("N", IntChars(10), <<>>, <<>>)),
   Aged(<<"c">>, Tagged("N", IntChars(30), <<>>, <<>>)),
   Aged(<<"d">>, Tagged("N", IntChars(0 - 2), <<>>, <<>>)),
   Aged(<<"e">>, Tagged("S", <<"2">>, <<>>, <<>>)),
   Tagged("M", <<>>, <<Tagged("S", <<"f">>, <<>>, <<>>)>>, <<F_name>>)}

SortPaginations ==
  {Pagination(JSUndefined, JSUndefined, JSUndefined, JSUndefined, sortBy, sortDirection) :
     sortBy \in {JSUndefined, JSStr(F_age), JSStr(F_name)},
     sortDirection \in {JSUndefined, JSStr(<<"a", "s", "c">>), JSStr(<<"d", "e", "s", "c">>)}}

InitSort ==
  /\ NoCall
  /\ fn = "executeQuery"
  /\ arg \in [items : SeqsUpTo(SortItems, MaxItems), pagination : SortPaginations]
  /\ ret = NotReturned

SortItemsOfResponse ==
  /\ fn = "executeQuery"
  /\ ~ret.done
  /\ \E sorted \in ClientSort(arg.items, arg.pagination) : ret' = Returned(sorted)
  /\ UNCHANGED <<callVars, fn, arg>>

NextSort == SortItemsOfResponse

SpecSort == InitSort /\ [][NextSort]_vars

(***************************************************************************)
(* Calls of the sorting service whose filters hold like predicates with    *)
(* values that split into no search term.                                  *)
(***************************************************************************)
LikePredicates ==
  {Filter(F_name, "like", JSStr(<<" ">>)),
   Filter(F_name, "not like", JSStr(<<>>)),
   Filter(F_name, "like", Str_a),
   Filter(pkName, "=", JSStr(<<"1">>)),
   Filter(F_unsafe, "like", JSStr(<<" ">>))}

LikeQueries ==
  {[filters |-> filters, pagination |-> pagination] :
     filters \in SeqsUpTo(LikePredicates, MaxFilters),
     pagination \in {AbsentPagination,
                     Pagination(JSUndefined, JSUndefined, JSNum(1), JSUndefined,
                                JSStr(F_name), JSUndefined)}}

InitLike ==
  /\ pc = "idle"
  /\ query \in LikeQueries
  /\ table \in Tables
  /\ locals = NoLocals
  /\ sent = <<>>
  /\ logs = <<>>
  /\ outcome = Pending
  /\ NoFunction

SpecLike == InitLike /\ [][Next]_vars

(***************************************************************************)
(* HttpClientAxios.request, subscribed once.  The client is constructed    *)
(* with a list of middlewares, each of which is one of the two kinds of    *)
(* the repository: the environment middleware sets its headers on the      *)
(* options when it is created and emits the options when it is subscribed; *)
(* the secrets middleware sets its headers and emits the options when its  *)
(* fetch has resolved.  sent holds the configs handed to axios.request,    *)
(* outcome the requests whose responses reached the subscriber.            *)
(***************************************************************************)
MaxMiddlewares == 3

HttpMethods == {"GET", "POST"}

MiddlewareKinds == {"environment", "secrets"}

\* the locals of one request: the middlewares that have set their headers on
\* the options object they share, and those that have emitted
RequestLocals(contributed, emitted) == [contributed |-> contributed, emitted |-> emitted]

\* the middlewares of a kind, by their index in this.middleware
OfKind(middleware, kind) == {m \in DOMAIN middleware : middleware[m] = kind}

\* { ...modifiedConfig, method, url, data }
AxiosConfig(method, contributed) == [method |-> method, headersOf |-> contributed]

\* the requests one emission after the other of count emissions hands to axios
RequestsOf(method, contributed, count) == [i \in 1..count |-> AxiosConfig(method, contributed)]

\* request(): buildMiddleware$ creates every middleware with the initial config
InitHttp ==
  /\ pc = "created"
  /\ query = NoQuery
  /\ table = <<>>
  /\ fn = "HttpClientAxios.request"
  /\ arg \in [method : HttpMethods, middleware : SeqsUpTo(MiddlewareKinds, MaxMiddlewares)]
  /\ locals = RequestLocals(OfKind(arg.middleware, "environment"), {})
  /\ sent = <<>>
  /\ logs = <<>>
  /\ outcome = <<>>
  /\ ret = NotReturned

\* subscribe: without middlewares of(initialConfig) emits; with middlewares
\* mergeMap subscribes to each in turn and the environment middlewares emit at
\* once; switchMap calls axios.request for every emission
Subscribe ==
  /\ pc = "created"
  /\ pc' = "subscribed"
  /\ \E emitting \in {OfKind(arg.middleware, "environment")} :
       /\ locals' = RequestLocals(locals.contributed, emitting)
       /\ sent' = RequestsOf(arg.method, locals.contributed,
                             IF Len(arg.middleware) = 0 THEN 1 ELSE Cardinality(emitting))
  /\ UNCHANGED <<query, table, logs, outcome, fn, arg, ret>>

\* the fetch of a secrets middleware resolves: setHeaders writes the headers
\* and the middleware emits the options; switchMap drops the request in
\* flight and calls axios.request again
SecretsEmit(m) ==
  /\ pc = "subscribed"
  /\ m \in OfKind(arg.middleware, "secrets") \ locals.emitted
  /\ locals' = RequestLocals(locals.contributed \cup {m}, locals.emitted \cup {m})
  /\ sent' = Append(sent, AxiosConfig(arg.method, locals.contributed \cup {m}))
  /\ UNCHANGED <<pc, query, table, logs, outcome, fn, arg, ret>>

\* the request switchMap is subscribed to, the last one, is answered
ResponseArrives ==
  /\ pc = "subscribed"
  /\ Len(sent) > 0
  /\ \A i \in 1..Len(outcome) : outcome[i] # Len(sent)
  /\ outcome' = Append(outcome, Len(sent))
  /\ UNCHANGED <<pc, query, table, locals, sent, logs, fn, arg, ret>>

NextHttp == Subscribe \/ (\E m \in 1..MaxMiddlewares : SecretsEmit(m)) \/ ResponseArrives

SpecHttp == InitHttp /\ [][NextHttp]_vars

(***************************************************************************)
(* The secret cache of the two middlewares.  A client is configured with   *)
(* one middleware; buildMiddleware$ calls it for every request, and the    *)
(* call creates the middleware: its closure starts with secretCache null   *)
(* and lastFetchTime 0, and setHeaders calls getSecrets once.  sent holds  *)
(* the fetches: the GetSecretValueCommand sent by the secrets middleware,  *)
(* the reading of process.env by the environment middleware.  Times are    *)
(* milliseconds.                                                           *)
(***************************************************************************)
MaxRequests == 3

CACHE_TTL == [secrets |-> 1000 * 60 * 60, environment |-> 1000 * 60 * 5]

\* the variables a created middleware closes over, and the now of the call
\* of getSecrets that awaits its fetch
Closure(secretCache, lastFetchTime, now) ==
  [secretCache |-> secretCache, lastFetchTime |-> lastFetchTime, now |-> now]

\* let secretCache = null; let lastFetchTime = 0
NewClosure == Closure(FALSE, 0, 0)

\* getSecrets: does it return the cache
CacheHit(closure, now, kind) ==
  closure.secretCache /\ now - closure.lastFetchTime < CACHE_TTL[kind]

\* a fetch: its time, and the closures whose fetch had succeeded before it
Fetch(at, after) == [at |-> at, after |-> after]

Cached(closures) == {i \in DOMAIN closures : closures[i].secretCache}

\* secretCache = secrets; lastFetchTime = now
Fetched(now) == Closure(TRUE, now, now)

ClientLocals(now, advances, closures) ==
  [now |-> now, advances |-> advances, closures |-> closures]

InitSecrets ==
  /\ pc = "configured"
  /\ query = NoQuery
  /\ table = <<>>
  /\ fn = "HttpClientAxios.request"
  /\ arg \in [method : HttpMethods, middleware : [1..1 -> MiddlewareKinds]]
  /\ locals = ClientLocals(0, 0, <<>>)
  /\ sent = <<>>
  /\ logs = <<>>
  /\ outcome = <<>>
  /\ ret = NotReturned

\* Date.now() moves on by a minute or by an hour
TimePasses ==
  /\ pc = "configured"
  /\ locals.advances < MaxRequests
  /\ \E d \in {1000 * 60, 1000 * 60 * 60} :
       locals' = ClientLocals(locals.now + d, locals.advances + 1, locals.closures)
  /\ UNCHANGED <<pc, query, table, sent, logs, outcome, fn, arg, ret>>

\* request with the environment middleware: the middleware is created, and
\* setHeaders and getSecrets run before the creation returns
RequestWithEnvironment ==
  /\ pc = "configured"
  /\ arg.middleware[1] = "environment"
  /\ Len(locals.closures) < MaxRequests
  /\ \E closure \in {NewClosure} :
       IF CacheHit(closure, locals.now, "environment")
         THEN /\ locals' = ClientLocals(locals.now, locals.advances,
                                        Append(locals.closures, closure))
              /\ sent' = sent
         ELSE /\ locals' = ClientLocals(locals.now, locals.advances,
                                        Append(locals.closures, Fetched(locals.now)))
              /\ sent' = Append(sent, Fetch(locals.now, Cached(locals.closures)))
  /\ UNCHANGED <<pc, query, table, logs, outcome, fn, arg, ret>>

\* request with the secrets middleware: the middleware is created, setHeaders
\* calls getSecrets, and getSecrets awaits fetchSecrets, which sends the command
RequestWithSecrets ==
  /\ pc = "configured"
  /\ arg.middleware[1] = "secrets"
  /\ Len(locals.closures) < MaxRequests
  /\ \E closure \in {NewClosure} :
       IF CacheHit(closure, locals.now, "secrets")
         THEN /\ locals' = ClientLocals(locals.now, locals.advances,
                                        Append(locals.closures, closure))
              /\ sent' = sent
         ELSE /\ locals' = ClientLocals(locals.now, locals.advances,
                                        Append(locals.closures, Closure(FALSE, 0, locals.now)))
              /\ sent' = Append(sent, Fetch(locals.now, Cached(locals.closures)))
  /\ UNCHANGED <<pc, query, table, logs, outcome, fn, arg, ret>>

\* fetchSecrets resolves: the closure keeps the secrets and the time at which
\* its getSecrets was called
FetchResolves(i) ==
  /\ pc = "configured"
  /\ i \in DOMAIN locals.closures
  /\ ~locals.closures[i].secretCache
  /\ locals' = ClientLocals(locals.now, locals.advances,
                            [locals.closures EXCEPT ![i] = Fetched(@.now)])
  /\ UNCHANGED <<pc, query, table, sent, logs, outcome, fn, arg, ret>>

NextSecrets ==
  \/ TimePasses
  \/ RequestWithEnvironment
  \/ RequestWithSecrets
  \/ \E i \in 1..MaxRequests : FetchResolves(i)

SpecSecrets == InitSecrets /\ [][NextSecrets]_vars

(***************************************************************************)
(* The handler built by lambdaHandlerBuilder.  An event is kept by what    *)
(* the handler reads of it; the use case by what its execute does; an      *)
(* error by its class and message.  A config holds what the builder and    *)
(* the handler are configured with; maxResponseSize keeps its default and  *)
(* no reflector is configured.  A body is absent (null), empty, malformed  *)
(* JSON, or JSON that is valid or invalid against the bodySchema; a        *)
(* configured bodySchema declares required properties.  A use case emits   *)
(* or throws delay milliseconds after its execute is called.               *)
(***************************************************************************)
\* the error classes declared in the sources, each with the class it extends
DeclaredClasses ==
  [Error |-> "Object",
   SchemaValidationError |-> "Error",
   CustomError |-> "Error",
   OtherError |-> "Error",
   CustomChildError |-> "CustomError",
   SyntaxError |-> "Error"]

\* the error classes the handler imports from modules outside the sources
ImportedClasses ==
  [RequestTimeoutError |-> "Error",
   PayloadTooLargeError |-> "Error"]

SuperClass == DeclaredClasses @@ ImportedClasses

\* the messages the imported classes give an error constructed without one
DefaultMessage ==
  [RequestTimeoutError |-> "Request timeout",
   PayloadTooLargeError |-> "Response payload too large"]

\* a thrown value: an object of a class, or a value that is no object
ErrorOf(class, message) == [class |-> class, message |-> message]

NotAnError == ErrorOf("string", "")

NothingThrown == ErrorOf("none", "")

\* error instanceof errorType
RECURSIVE InstanceOf(_, _)
InstanceOf(class, errorType) ==
  IF class = errorType THEN TRUE
  ELSE IF class \in DOMAIN SuperClass THEN InstanceOf(SuperClass[class], errorType)
  ELSE FALSE

DEFAULT_TIMEOUT == 29000

DEFAULT_ALLOWED_METHODS == {"GET", "POST", "PUT", "PATCH", "DELETE", "OPTIONS"}

\* an absent corsOriginWhitelist, and one that lists origins
NoWhitelist == [present |-> FALSE, origins |-> {}]

WhitelistOf(origins) == [present |-> TRUE, origins |-> origins]

\* validateOrigin echoing every origin of a request
validateOriginEchoing(requestOrigin, whitelist) ==
  IF ~whitelist.present \/ requestOrigin = "none" THEN "*" ELSE requestOrigin

\* validateOrigin(requestOrigin, whitelist); "none" is an absent origin
validateOrigin(requestOrigin, whitelist) ==
  IF ~whitelist.present \/ requestOrigin = "none" THEN "*"
  ELSE IF requestOrigin \in whitelist.origins THEN requestOrigin ELSE "null"

\* what the try block ends with: the value thrown, if any, and the number of
\* use cases whose execute was called
Tried(thrown, executed) == [thrown |-> thrown, executed |-> executed]

\* config.timeoutMs ?? DEFAULT_TIMEOUT; 0 - 1 is an absent timeoutMs
TimeoutOf(timeoutMs) == IF timeoutMs < 0 THEN DEFAULT_TIMEOUT ELSE timeoutMs

\* the timer of the timeout operator fires before the chain has emitted or
\* thrown: the use case never does either, or does so after the deadline
TimesOut(usecase, first) == usecase.kind = "silent" \/ usecase.delay > first

\* the chain of one use case, the timeout and the check of the response size
RunChain(usecase, first) ==
  CASE TimesOut(usecase, first) ->
         Tried(ErrorOf("RequestTimeoutError", DefaultMessage.RequestTimeoutError), 1)
    [] usecase.kind = "throws" -> Tried(usecase.error, 1)
    [] usecase.kind = "returnsLarge" ->
         Tried(ErrorOf("PayloadTooLargeError", DefaultMessage.PayloadTooLargeError), 1)
    [] OTHER -> Tried(NothingThrown, 1)

TryBlock(event, config) ==
  IF event.httpMethod \notin config.allowedMethods
    THEN Tried(ErrorOf("Error", "Unsupported method: " \o event.httpMethod), 0)
  ELSE IF event.httpMethod \in {"POST", "PUT"} /\ ~event.jsonContentType
    THEN Tried(ErrorOf("Error", "Content-Type must be application/json"), 0)
  ELSE IF config.bodySchema /\ event.body \notin {"absent", "empty"} /\ event.body = "malformed"
    THEN Tried(ErrorOf("SyntaxError", "Unexpected token in JSON"), 0)
  ELSE IF config.bodySchema /\ event.body \notin {"absent", "empty"} /\ event.body = "invalid"
    THEN Tried(ErrorOf("SchemaValidationError", "Request body validation failed"), 0)
  ELSE RunChain(config.usecase, TimeoutOf(config.timeoutMs))

\* { ...config.errorToStatusCodeMapping, 400: [...], 408: [...], 413: [...] }
errorMapping(mapping) ==
  [code \in DOMAIN mapping \cup {400, 408, 413} |->
     CASE code = 400 ->
            (IF 400 \in DOMAIN mapping THEN mapping[400] ELSE <<>>) \o <<"SchemaValidationError">>
       [] code = 408 -> <<"RequestTimeoutError">>
       [] code = 413 -> <<"PayloadTooLargeError">>
       [] OTHER -> mapping[code]]

\* the loop over Object.entries(errorMapping): integer keys come in ascending
\* order, and the first code one of whose classes the error is an instance of wins
StatusOf(entries, thrown) ==
  LET codes == {code \in DOMAIN entries :
                  \E i \in 1..Len(entries[code]) : InstanceOf(thrown.class, entries[code][i])}
  IN  IF ~InstanceOf(thrown.class, "Error") \/ codes = {} THEN 500
      ELSE CHOOSE code \in codes : \A other \in codes : code <= other

Response(statusCode, code, message, allowOrigin, tried) ==
  [statusCode |-> statusCode, code |-> code, message |-> message,
   allowOrigin |-> allowOrigin, thrown |-> tried.thrown, executed |-> tried.executed]

CatchBlock(event, config, tried, statusCode) ==
  Response(statusCode, statusCode,
           IF InstanceOf(tried.thrown.class, "Error") THEN tried.thrown.message
           ELSE "Unexpected error occurred",
           validateOrigin(event.origin, config.corsOriginWhitelist), tried)

HandlerOf(event, config, tried) ==
  IF tried.thrown = NothingThrown
    THEN Response(200, 0, "", validateOrigin(event.origin, config.corsOriginWhitelist), tried)
    ELSE CatchBlock(event, config, tried,
                    StatusOf(errorMapping(config.errorToStatusCodeMapping), tried.thrown))

lambdaHandler(event, config) == HandlerOf(event, config, TryBlock(event, config))

HandlerEvents ==
  [httpMethod : {"GET", "POST", "TRACE"},
   jsonContentType : BOOLEAN,
   body : {"absent", "empty", "malformed", "valid", "invalid"},
   origin : {"none", "https://a.example", "https://b.example"}]

\* the caller's errorToStatusCodeMapping: absent, classes of the caller
\* listed under codes of its own and under 400, 408 and 413, and Error itself
HandlerMappings ==
  {<<>>,
   400 :> <<"Error">>,
   418 :> <<"CustomError">>,
   400 :> <<"CustomError">>,
   408 :> <<"CustomError">>,
   413 :> <<"CustomError">>,
   (404 :> <<"CustomError">>) @@ (503 :> <<"OtherError">>)}

UseCase(kind, error, delay) == [kind |-> kind, error |-> error, delay |-> delay]

\* use cases that answer at once, and ones that emit or throw after 150 ms and
\* after 30 s
UseCases ==
  {UseCase(kind, NothingThrown, 0) : kind \in {"returns", "returnsLarge", "silent"}}
    \cup {UseCase("throws", ErrorOf(class, "failed"), 0) :
            class \in (DOMAIN SuperClass \ {"SyntaxError"}) \cup {"string"}}
    \cup {UseCase("returns", NothingThrown, delay) : delay \in {150, 30000}}
    \cup {UseCase("throws", ErrorOf("CustomError", "failed"), delay) : delay \in {150, 30000}}

HandlerConfigs ==
  [allowedMethods : {DEFAULT_ALLOWED_METHODS, {"GET"}},
   timeoutMs : {0 - 1, 100},
   bodySchema : BOOLEAN,
   errorToStatusCodeMapping : HandlerMappings,
   corsOriginWhitelist : {NoWhitelist, WhitelistOf({"https://a.example"})},
   usecase : UseCases]

InitHandler ==
  /\ NoCall
  /\ fn = "lambdaHandler"
  /\ arg \in [event : HandlerEvents, config : HandlerConfigs]
  /\ ret = NotReturned

LambdaHandler ==
  /\ fn = "lambdaHandler"
  /\ ~ret.done
  /\ ret' = Returned(lambdaHandler(arg.event, arg.config))
  /\ UNCHANGED <<callVars, fn, arg>>

NextHandler == LambdaHandler

SpecHandler == InitHandler /\ [][NextHandler]_vars

(***************************************************************************)
(* Properties of a call                                                    *)
(***************************************************************************)
\* the limit and offset a query's pagination normalises to
NormalLimit == calculatePaginationValues(query.pagination).limit

NormalOffset == calculatePaginationValues(query.pagination).offset

\* a predicate whose field fails validateFieldName or whose value fails validateValue
InvalidPredicate(f) == validateFieldName(f.field) # "ok" \/ validateValue(f.value) # "ok"

HasInvalidPredicate(q) == \E i \in 1..Len(q.filters) : InvalidPredicate(q.filters[i])

\* C1: a query with an invalid predicate anywhere in its filter list, under any
\* pagination validatePagination accepts, is rejected with a ValidationError and
\* no command is sent to the store client.
C1_InvalidPredicateRejectedUnsent ==
  (/\ pc # "idle"
   /\ HasInvalidPredicate(query)
   /\ validatePagination(query.pagination) = "ok")
    => (sent = <<>> /\ outcome = Rejected(ValidationError))

\* the attribute of an item that a dotted field names
RECURSIVE AttributeAt(_, _)
AttributeAt(item, parts) ==
  IF Len(parts) = 0 THEN item ELSE AttributeAt(AttributeOf(item, parts[1]), Tail(parts))

\* what a predicate of the query asks of an item
Matches(item, f) ==
  LET attr == AttributeAt(item, SplitDot(f.field))
      terms == NonEmpty(SplitWhitespace(JSString(f.value)))
      hasTerm(i) ==
        \/ Includes(attr.s, terms[i])
        \/ Includes(attr.s, toLowerCase(terms[i]))
        \/ Includes(attr.s, toUpperCase(terms[i]))
  IN  CASE f.operator = "=" -> attr = toDynamoDBValue(f.value)
        [] f.operator = "like" -> attr.tag = "S" /\ \A i \in 1..Len(terms) : hasTerm(i)
        [] OTHER -> FALSE

MatchingItems(items, filters) ==
  SelectSeq(items, LAMBDA item : \A i \in 1..Len(filters) : Matches(item, filters[i]))

\* C2: with a normalised limit of 0 the call returns no data and a total equal to
\* the number of stored items that match the filters of the query.
C2_LimitZeroTotalIsMatchCount ==
  (/\ pc = "resolved"
   /\ IsZero(NormalLimit)
   /\ ~HasInvalidPredicate(query))
    => /\ outcome.data = <<>>
       /\ outcome.total = Len(MatchingItems(table, query.filters))

\* C9: the total of a successful call is the number of items of the store's
\* response; data is empty when limit = 0 or offset >= total, and otherwise it
\* is the items offset .. min(offset + limit, total) - 1 of the sorted list, in
\* order, each unwrapped; so data never holds more than limit items.
C9_PageIsSliceOfResponse ==
  pc = "resolved" =>
    LET response == StoreItems(table, sent[Len(sent)].input)
        total == outcome.total
        limit == NormalLimit.n
        offset == NormalOffset.n
        last == IF offset + limit < total THEN offset + limit ELSE total
    IN  /\ total = Len(response)
        /\ locals.sorted \in Rearrangements(response)
        /\ ~Truthy(query.pagination.sortBy) => locals.sorted = response
        /\ outcome.data =
             IF limit = 0 \/ offset >= total THEN <<>>
             ELSE [i \in 1..(last - offset) |->
                     mapDynamoDBItemToType(locals.sorted[offset + i])]
        /\ Len(outcome.data) <= limit

\* a page cut from the middle of a longer response
C9_Witness ==
  /\ pc = "resolved"
  /\ outcome.total = 3
  /\ NormalOffset.n = 1
  /\ Len(outcome.data) = 1
  /\ Truthy(query.pagination.sortBy)

\* C11: a call that passes validation sends exactly one command to the store
\* client, whether send resolves or rejects, and no call ever sends a second.
C11_ExactlyOneCommandPerCall ==
  /\ Len(sent) <= 1
  /\ pc # "idle" =>
       Len(sent) = IF prepareQueryParameters(query).status = "ok" THEN 1 ELSE 0

\* a call whose only command was rejected by the store
C11_Witness == pc = "rejected" /\ Len(sent) = 1 /\ locals.thrown = StoreError

\* C12: when send rejects with an error, the call logs that error once and
\* rejects with the same error, and returns no page.
C12_StoreErrorLoggedAndRethrown ==
  (pc = "rejected" /\ sent # <<>>) =>
    /\ locals.thrown \in StoreErrors
    /\ outcome.status = "rejected"
    /\ outcome.error = locals.thrown
    /\ outcome.data = <<>> /\ outcome.total = 0
    /\ Len(logs) = 1
    /\ logs[1].error = locals.thrown

\* a call rejected with the throttling error of the store
C12_Witness ==
  /\ pc = "rejected"
  /\ sent # <<>>
  /\ outcome.error = ThrottlingError
  /\ logs # <<>>

\* the predicates that qualify for the key condition
IsPkEquality(f) == f.field = pkName /\ f.operator = "="

\* C10: with a normalised limit above 0 the one request sent is a Query exactly
\* when the filter list has an equality predicate on the partition key, else a
\* Scan carrying the compiled filter expression; #sortKey and ScanIndexForward
\* are attached to Query requests only, and ScanIndexForward is false exactly
\* when sortDirection is 'desc'.
C10_QueryIffPartitionKeyEquality ==
  (sent # <<>> /\ ~IsZero(NormalLimit)) =>
    LET c == sent[1]
        compiled == buildFilterExpression(query.filters, pkName)
    IN  /\ Len(sent) = 1
        /\ c.command \in {"Query", "Scan"}
        /\ c.command = "Query" <=> \E i \in 1..Len(query.filters) : IsPkEquality(query.filters[i])
        /\ c.command = "Query" <=> c.input.hasKeyCondition
        /\ c.command = "Scan" =>
             /\ c.input.hasFilter = compiled.hasFilter
             /\ c.input.hasFilter => c.input.FilterExpression = compiled.FilterExpression
             /\ ~c.input.hasScanIndexForward
             /\ SortKeyName \notin DOMAIN c.input.ExpressionAttributeNames
        /\ c.input.hasScanIndexForward =>
             (c.input.ScanIndexForward = FALSE
                <=> query.pagination.sortDirection = JSStr(<<"d", "e", "s", "c">>))

\* a Query sent with the descending sort directive
C10_Witness ==
  /\ sent # <<>>
  /\ sent[1].command = "Query"
  /\ sent[1].input.hasScanIndexForward
  /\ ~sent[1].input.ScanIndexForward
  /\ SortKeyName \in DOMAIN sent[1].input.ExpressionAttributeNames

\* C14: the service without the client-side sort sends the request the sorting
\* service sends for the same query, rejects before sending exactly when the
\* sorting service does, and returns the same total and the same items before
\* slicing up to their order.
C14_ServicesDifferOnlyInClientSort ==
  pc # "idle" =>
    LET sorting == prepareQueryParameters(query)
    IN  /\ sent = <<>> <=> sorting.status # "ok"
        /\ sent = <<>> => outcome = Rejected(sorting.status)
        /\ sent # <<>> => sent = <<CommandFor(sorting.params)>>
        /\ pc = "resolved" =>
             /\ outcome.total = Len(StoreItems(table, CommandFor(sorting.params).input))
             /\ locals.items \in Rearrangements(StoreItems(table, CommandFor(sorting.params).input))

\* what a call with query q ends with when it runs alone on the table
OutcomesAlone(q, items) ==
  LET p == prepareQueryParameters(q)
      input == CommandFor(p.params).input
  IN  IF p.status # "ok" THEN {Rejected(p.status)}
      ELSE {Rejected(e) : e \in StoreErrors}
             \cup (IF StoreAccepts(input)
                     THEN {Resolved(processResults(sorted, p.limit, p.offset), Len(sorted)) :
                             sorted \in ClientSort(StoreItems(items, input), q.pagination)}
                     ELSE {})

\* C16: with calls interleaved at their awaits, each call sends the request and
\* ends with the page or the error it would have alone, and the instance's
\* tableName and pkName stay as constructed.
C16_InterleavedCallsAreIndependent ==
  /\ arg = Instance
  /\ \A c \in Calls :
       /\ sent[c] # <<>> =>
            /\ prepareQueryParameters(query[c]).status = "ok"
            /\ sent[c] = <<CommandFor(prepareQueryParameters(query[c]).params)>>
       /\ pc[c] \in {"resolved", "rejected"} => outcome[c] \in OutcomesAlone(query[c], table)
       /\ pc[c] \notin {"resolved", "rejected"} => outcome[c] = Pending

\* two calls that began before either ended, resolved with different pages
C16_Witness ==
  /\ \A c \in Calls : pc[c] = "resolved"
  /\ Len(outcome[1].data) = 1
  /\ outcome[2].data = <<>>
  /\ outcome[2].total = 3
  /\ sent[1] # sent[2]

\* the number an item carries in a field, when the field holds an N
NumberIn(item, field) == Number(JSStr(AttributeOf(item, field).s)).n

\* C17: with sortBy set and a numeric value of that field in every retrieved
\* item, the list before slicing is a rearrangement of the retrieved items, in
\* non-decreasing order of the field when sortDirection is 'asc' or absent and
\* in non-increasing order when it is 'desc'.
C17_NumericSortFollowsDirection ==
  (/\ fn = "executeQuery" /\ ret.done
   /\ Truthy(arg.pagination.sortBy)
   /\ \A i \in 1..Len(arg.items) :
        AttributeOf(arg.items[i], arg.pagination.sortBy.s).tag = "N")
    => LET field == arg.pagination.sortBy.s
           sorted == ret.value
       IN  /\ sorted \in Rearrangements(arg.items)
           /\ \A i, j \in 1..Len(sorted) :
                i < j =>
                  IF arg.pagination.sortDirection = JSStr(<<"d", "e", "s", "c">>)
                    THEN NumberIn(sorted[i], field) >= NumberIn(sorted[j], field)
                    ELSE NumberIn(sorted[i], field) <= NumberIn(sorted[j], field)

\* ages 10, 30 and 5 returned as 30, 10, 5 under sortDirection 'desc'
C17_Witness ==
  /\ fn = "executeQuery" /\ ret.done
  /\ arg.pagination.sortBy = JSStr(F_age)
  /\ arg.pagination.sortDirection = JSStr(<<"d", "e", "s", "c">>)
  /\ Len(arg.items) = 3
  /\ [i \in 1..3 |-> NumberIn(arg.items[i], F_age)] = <<10, 30, 5>>
  /\ [i \in 1..3 |-> NumberIn(ret.value[i], F_age)] = <<30, 10, 5>>

(***************************************************************************)
(* Properties of the expression builder                                    *)
(***************************************************************************)
Built_ok == fn = "buildFilterExpression" /\ ret.done /\ ret.value.status = "ok"

\* the terms a like value splits into, in the case the caller wrote them
TermsOf(value) == NonEmpty(SplitWhitespace(JSString(value)))

\* does a string attribute contain a term in one of its case variants
ContainsVariant(s, term) ==
  Includes(s, term) \/ Includes(s, toLowerCase(term)) \/ Includes(s, toUpperCase(term))

\* the item whose attribute at a dotted field is the string s
RECURSIVE ItemWith(_, _)
ItemWith(parts, s) ==
  IF Len(parts) = 0 THEN Tagged("S", s, <<>>, <<>>)
  ELSE Tagged("M", <<>>, <<ItemWith(Tail(parts), s)>>, <<parts[1]>>)

\* the strings an attribute is tried with
TestStrings == SeqsUpTo({"a", "b", "B"}, 2)

\* does the store find that the item satisfies the filter of a built expression
Accepts(expr, item) ==
  Satisfies(item, expr.FilterExpression, MapOfWrites(expr.names), MapOfWrites(expr.values))

\* C3: the filter compiled from a like predicate with at least one term is
\* satisfied only by items whose attribute contains every term in one of its
\* case variants; the filter compiled from a not like predicate only by items
\* whose attribute contains no variant of any term.
C3_LikeNeedsEveryTerm ==
  (/\ Built_ok
   /\ Len(arg) = 1
   /\ arg[1].operator \in {"like", "not like"}
   /\ Len(TermsOf(arg[1].value)) >= 1)
    => \A s \in TestStrings :
         Accepts(ret.value, ItemWith(SplitDot(arg[1].field), s)) =>
           \A i \in 1..Len(TermsOf(arg[1].value)) :
             IF arg[1].operator = "like"
               THEN ContainsVariant(s, TermsOf(arg[1].value)[i])
               ELSE ~ContainsVariant(s, TermsOf(arg[1].value)[i])

\* the value a built expression holds under the placeholder of term t (from 0)
\* of the remaining predicate i (from 0), in the variant of the suffix
ValueOfTerm(expr, i, t, suffix) ==
  LET key == ":val" \o ToString(i) \o "_" \o ToString(t) \o "_" \o suffix
      values == MapOfWrites(expr.values)
  IN  IF key \in DOMAIN values THEN values[key] ELSE Missing

\* C13: for every search term of a like or not like predicate the placeholders
\* _l, _u and _o hold the lower-cased term, the upper-cased term and the term
\* in the case the caller wrote it.
C13_LikeVariantsKeepOriginalCase ==
  Built_ok =>
    LET r == extractPartitionKeyFilter(arg, pkName).remainingFilters
    IN  \A i \in 1..Len(r) :
          r[i].operator \in {"like", "not like"} =>
            \A t \in 1..Len(TermsOf(r[i].value)) :
              LET term == TermsOf(r[i].value)[t]
              IN  /\ ValueOfTerm(ret.value, i - 1, t - 1, "l") = Tagged("S", toLowerCase(term), <<>>, <<>>)
                  /\ ValueOfTerm(ret.value, i - 1, t - 1, "u") = Tagged("S", toUpperCase(term), <<>>, <<>>)
                  /\ ValueOfTerm(ret.value, i - 1, t - 1, "o") = Tagged("S", term, <<>>, <<>>)

\* the placeholders an expression refers to
NamesUsed(tokens) == UNION {Range(tokens[i].path) : i \in 1..Len(tokens)}

ValuesUsed(tokens) == {tokens[i].val : i \in 1..Len(tokens)} \ {""}

KeysWritten(writes) == {writes[i].key : i \in 1..Len(writes)}

\* C4: every name and value placeholder of the key condition and of the filter
\* expression is a key of the corresponding map, and no key of either map is
\* assigned twice.
C4_PlaceholdersDefinedOnce ==
  Built_ok =>
    LET e == ret.value
        tokens == e.KeyConditionExpression \o e.FilterExpression
    IN  /\ NamesUsed(tokens) \subseteq KeysWritten(e.names)
        /\ ValuesUsed(tokens) \subseteq KeysWritten(e.values)
        /\ \A i, j \in 1..Len(e.names) : e.names[i].key = e.names[j].key => i = j
        /\ \A i, j \in 1..Len(e.values) : e.values[i].key = e.values[j].key => i = j

\* two predicates with several terms and elements, built into one expression
C4_Witness ==
  /\ Built_ok
  /\ Len(arg) >= 2
  /\ Len(ret.value.names) >= 3
  /\ Len(ret.value.values) >= 7

Qualifying(filters) == {i \in 1..Len(filters) : IsPkEquality(filters[i])}

SupportedOperators ==
  {"<", ">", "<=", ">=", "=", "!=", "in", "not in", "like", "not like"}

\* C6: a filter list with a predicate whose operator is not one of the ten
\* supported ones makes buildFilterExpression fail with the unsupported-operator
\* error instead of returning an expression.
C6_UnsupportedOperatorFails ==
  (/\ fn = "buildFilterExpression"
   /\ ret.done
   /\ ValidateFilters(arg) = "ok"
   /\ \E i \in 1..Len(arg) : arg[i].operator \notin SupportedOperators)
    => ret.value.status = ValidationError

(***************************************************************************)
(* Properties of the validator and of the pagination values                *)
(***************************************************************************)
\* null or undefined, at the top or as an element or property value
RECURSIVE HoldsNullish(_)
HoldsNullish(v) ==
  \/ v.t \in {"null", "undefined"}
  \/ \E i \in 1..Len(v.a) : HoldsNullish(v.a[i])

\* C7: validateValue fails with a ValidationError, and no other error, for null
\* and undefined and for a value that holds one as an array element or as an
\* object property value.
C7_NullishIsValidationError ==
  (fn = "validateValue" /\ ret.done /\ HoldsNullish(arg)) => ret.value = ValidationError

\* limit ?? 100 and page ?? 1
Coalesce(v, d) == IF v.t \in {"null", "undefined"} THEN d ELSE v

Maximum(a, b) == IF a > b THEN a ELSE b

\* C8: for an accepted pagination, limit = max(0, floor(limit ?? 100)) and
\* offset is the offset given when that is a number >= 0, and otherwise
\* (max(1, floor(page ?? 1)) - 1) * limit.
C8_NormalisedPagination ==
  (fn = "calculatePaginationValues" /\ ret.done) =>
    LET limit == Maximum(0, MathFloor(Coalesce(arg.limit, JSNum(100))).n)
        page == Maximum(1, MathFloor(Coalesce(arg.page, JSNum(1))).n)
    IN  /\ ret.value.limit = JSNum(limit)
        /\ ret.value.offset =
             IF arg.offset.t = "num" /\ arg.offset.n >= 0 THEN arg.offset
             ELSE JSNum((page - 1) * limit)

\* C15: validatePagination throws a ValidationError exactly when one of page,
\* limit and offset is present and does not coerce to an integer; no other
\* field of the pagination has a part in it.
C15_OnlyPageLimitOffsetAreValidated ==
  (fn = "validatePagination" /\ ret.done) =>
    /\ ret.value \in {"ok", ValidationError}
    /\ ret.value = ValidationError <=>
         \E v \in {arg.page, arg.limit, arg.offset} :
           v.t # "undefined" /\ ~NumberIsInteger(Number(v))

\* the prototype-pollution keys
PrototypeKeys ==
  {<<"_", "_", "p", "r", "o", "t", "o", "_", "_">>,
   <<"c", "o", "n", "s", "t", "r", "u", "c", "t", "o", "r">>,
   <<"p", "r", "o", "t", "o", "t", "y", "p", "e">>}

\* does the JSON serialization of a value contain a blacklisted token, in any case
SerializationHoldsToken(v) ==
  \E token \in NOSQL_OPERATORS \cup PrototypeKeys :
    Includes(toLowerCase(JSONStringify(v)), toLowerCase(token))

\* C18: validateValue fails with a ValidationError for every value whose JSON
\* serialization contains, in any case, a NoSQL-operator token or a prototype
\* key, in an object key or in a string at any depth.
C18_BlacklistedTokenIsRejected ==
  (fn = "validateValue" /\ ret.done /\ SerializationHoldsToken(arg))
    => ret.value = ValidationError

\* a prototype key in another case, inside an object inside an array
C18_Witness ==
  /\ fn = "validateValue" /\ ret.done
  /\ arg = JSArr(<<JSObj(<<<<"_", "_", "P", "R", "O", "T", "O", "_", "_">>>>, <<JSNum(1)>>)>>)
  /\ ret.value = ValidationError

\* the substrings no field name may contain
FieldBlacklist ==
  {<<"_", "_", "p", "r", "o", "t", "o", "_", "_">>,
   <<"c", "o", "n", "s", "t", "r", "u", "c", "t", "o", "r">>,
   <<"p", "r", "o", "t", "o", "t", "y", "p", "e">>,
   <<"$">>, <<";">>, <<"d", "r", "o", "p">>, <<"d", "e", "l", "e", "t", "e">>,
   <<"i", "n", "s", "e", "r", "t">>, <<"u", "p", "d", "a", "t", "e">>}

IsIdentifier(segment) ==
  /\ Len(segment) >= 1
  /\ segment[1] \in Range(LowerAlpha) \cup Range(UpperAlpha)
  /\ \A i \in 2..Len(segment) :
       segment[i] \in Range(LowerAlpha) \cup Range(UpperAlpha) \cup Range(DigitChars) \cup {"_"}

\* the dot-separated segments of a field: cut at every dot
Segments(field) ==
  LET dots == <<0>> \o SelectSeq([i \in 1..Len(field) |-> i], LAMBDA i : field[i] = ".")
                   \o <<Len(field) + 1>>
  IN  [s \in 1..(Len(dots) - 1) |-> SubSeq(field, dots[s] + 1, dots[s + 1] - 1)]

\* C19: validateFieldName succeeds exactly for a non-empty field that contains
\* none of the blacklisted substrings in any case, has at most 20 dot-separated
\* segments, each of at most 255 characters and each a letter followed by
\* letters, digits or underscores; for every other field it throws a
\* ValidationError.
C19_FieldNameAcceptedIffWellFormed ==
  (fn = "validateFieldName" /\ ret.done) =>
    /\ ret.value \in {"ok", ValidationError}
    /\ ret.value = "ok" <=>
         /\ Len(arg) > 0
         /\ \A b \in FieldBlacklist : ~Includes(toLowerCase(arg), b)
         /\ Len(Segments(arg)) <= 20
         /\ \A s \in 1..Len(Segments(arg)) :
              Len(Segments(arg)[s]) <= 255 /\ IsIdentifier(Segments(arg)[s])

\* 'user.name' accepted
C19_Witness ==
  /\ fn = "validateFieldName" /\ ret.done
  /\ arg = <<"u", "s", "e", "r", ".", "n", "a", "m", "e">>
  /\ ret.value = "ok"

(***************************************************************************)
(* Properties of the requests the service sends                            *)
(***************************************************************************)
\* the expressions of a request, one after the other
TokensOf(input) ==
  (IF input.hasKeyCondition THEN input.KeyConditionExpression ELSE <<>>)
    \o (IF input.hasFilter THEN input.FilterExpression ELSE <<>>)

\* C24: in every request sent, each key of ExpressionAttributeNames and each
\* key of ExpressionAttributeValues is referred to by the key condition or by
\* the filter expression of that request, "#sortKey" included.
C24_EveryPlaceholderIsReferenced ==
  \A i \in 1..Len(sent) :
    /\ sent[i].input.hasNames =>
         DOMAIN sent[i].input.ExpressionAttributeNames \subseteq NamesUsed(TokensOf(sent[i].input))
    /\ sent[i].input.hasValues =>
         DOMAIN sent[i].input.ExpressionAttributeValues \subseteq ValuesUsed(TokensOf(sent[i].input))

\* C26: a query whose sortBy is set to a field name validateFieldName refuses
\* is rejected with a ValidationError and nothing is sent, whether its filters
\* lead to a Query or to a Scan.
C26_SortByIsValidatedOnBothPaths ==
  (/\ query.pagination.sortBy.t = "str"
   /\ Truthy(query.pagination.sortBy)
   /\ validateFieldName(query.pagination.sortBy.s) # "ok")
    => /\ sent = <<>>
       /\ pc # "idle" => outcome = Rejected(ValidationError)

\* C25: no request sent carries an ExpressionAttributeNames or an
\* ExpressionAttributeValues map that is set and has no key, the requests of
\* like predicates without search terms included.
C25_NoEmptyPlaceholderMap ==
  \A i \in 1..Len(sent) :
    /\ sent[i].input.hasNames => DOMAIN sent[i].input.ExpressionAttributeNames # {}
    /\ sent[i].input.hasValues => DOMAIN sent[i].input.ExpressionAttributeValues # {}

(***************************************************************************)
(* Properties of the client-side sort                                      *)
(***************************************************************************)
\* C29: the comparator of the client-side sort orders the sort-field values of
\* any retrieved items consistently, numbers, strings and missing values mixed:
\* it is antisymmetric and transitive, and the sorted list is the same for
\* every input order of the same items.
C29_ComparatorIsConsistentOrdering ==
  (fn = "executeQuery" /\ Truthy(arg.pagination.sortBy)) =>
    /\ ConsistentComparator(arg.items, arg.pagination.sortBy.s, ScanForward(arg.pagination))
    /\ ret.done =>
         \A other \in Rearrangements(arg.items) :
           \A sorted \in ClientSort(other, arg.pagination) :
             [i \in DOMAIN sorted |-> SortValue(sorted[i], arg.pagination.sortBy.s)]
               = [i \in DOMAIN ret.value |-> SortValue(ret.value[i], arg.pagination.sortBy.s)]

(***************************************************************************)
(* Properties of the Lambda handler                                        *)
(***************************************************************************)
\* C20: the status of an error response follows the class of the error: the
\* code under which the caller's mapping lists a class the error is an
\* instance of, for any code, 400, 408 and 413 included; 400 for a
\* SchemaValidationError, 408 for a RequestTimeoutError, 413 for a
\* PayloadTooLargeError; 500 for any other error; and the code of the body is
\* the status code.
C20_StatusFollowsErrorClass ==
  (fn = "lambdaHandler" /\ ret.done /\ ret.value.thrown # NothingThrown) =>
    LET mapping == arg.config.errorToStatusCodeMapping
        class == ret.value.thrown.class
        listed == {code \in DOMAIN mapping :
                     \E i \in 1..Len(mapping[code]) : InstanceOf(class, mapping[code][i])}
    IN  /\ \A code \in listed : ret.value.statusCode = code
        /\ InstanceOf(class, "SchemaValidationError") => ret.value.statusCode = 400
        /\ InstanceOf(class, "RequestTimeoutError") => ret.value.statusCode = 408
        /\ InstanceOf(class, "PayloadTooLargeError") => ret.value.statusCode = 413
        /\ (/\ listed = {}
            /\ \A builtin \in {"SchemaValidationError", "RequestTimeoutError",
                                "PayloadTooLargeError"} : ~InstanceOf(class, builtin))
             => ret.value.statusCode = 500
        /\ ret.value.code = ret.value.statusCode

\* C21: every response, of the success path and of the error path, carries
\* Access-Control-Allow-Origin '*' when no whitelist is configured or the
\* request has no origin, the request's origin when the whitelist holds it and
\* 'null' when it does not; an origin outside the whitelist is never echoed.
C21_AllowOriginFollowsWhitelist ==
  (fn = "lambdaHandler" /\ ret.done) =>
    LET origin == arg.event.origin
        whitelist == arg.config.corsOriginWhitelist
    IN  /\ (~whitelist.present \/ origin = "none") => ret.value.allowOrigin = "*"
        /\ (whitelist.present /\ origin # "none" /\ origin \in whitelist.origins)
             => ret.value.allowOrigin = origin
        /\ (whitelist.present /\ origin # "none" /\ origin \notin whitelist.origins)
             => ret.value.allowOrigin = "null"

\* an error response to a request from an origin outside the whitelist
C21_Witness ==
  /\ fn = "lambdaHandler" /\ ret.done
  /\ ret.value.statusCode = 500
  /\ arg.config.corsOriginWhitelist = WhitelistOf({"https://a.example"})
  /\ arg.event.origin = "https://b.example"
  /\ ret.value.allowOrigin = "null"

\* C22: a request whose method is not among allowedMethods, or whose method is
\* POST or PUT without a content type of application/json, is answered with
\* status 500 and a message naming the violation, and no use case is executed.
C22_RefusedRequestIs500Unexecuted ==
  (fn = "lambdaHandler" /\ ret.done) =>
    /\ arg.event.httpMethod \notin arg.config.allowedMethods
         => /\ ret.value.statusCode = 500
            /\ ret.value.message = "Unsupported method: " \o arg.event.httpMethod
            /\ ret.value.executed = 0
    /\ (/\ arg.event.httpMethod \in arg.config.allowedMethods
        /\ arg.event.httpMethod \in {"POST", "PUT"}
        /\ ~arg.event.jsonContentType)
         => /\ ret.value.statusCode = 500
            /\ ret.value.message = "Content-Type must be application/json"
            /\ ret.value.executed = 0

\* C23: a chain that has not emitted within timeoutMs (29000 when absent) of
\* being subscribed is answered with status 408 and 'Request timeout', whatever
\* the use case emits or throws later; a chain that emits its result before
\* the deadline is never answered with 408.
C23_LateChainIs408 ==
  (fn = "lambdaHandler" /\ ret.done /\ ret.value.executed > 0) =>
    LET usecase == arg.config.usecase
        deadline == IF arg.config.timeoutMs < 0 THEN 29000 ELSE arg.config.timeoutMs
    IN  /\ (usecase.kind = "silent" \/ usecase.delay > deadline)
             => (ret.value.statusCode = 408 /\ ret.value.message = "Request timeout")
        /\ (usecase.kind \in {"returns", "returnsLarge"} /\ usecase.delay < deadline)
             => ret.value.statusCode # 408

\* C30: with a bodySchema configured, a use case is executed only for a request
\* whose body was validated against the schema and found valid; absent and
\* empty bodies do not reach the use cases.
C30_HandlersRunOnlyAfterValidation ==
  (fn = "lambdaHandler" /\ ret.done /\ arg.config.bodySchema /\ ret.value.executed > 0)
    => arg.event.body = "valid"

(***************************************************************************)
(* Properties of the HTTP client                                           *)
(***************************************************************************)
\* C27: a subscribed call of request hands at most one config to axios, one
\* that holds the headers of every configured middleware, and exactly one once
\* every middleware has emitted, whatever the number of middlewares and the
\* order of their emissions.
C27_OneRequestAfterAllMiddlewares ==
  (fn = "HttpClientAxios.request" /\ pc = "subscribed") =>
    /\ Len(sent) <= 1
    /\ \A i \in 1..Len(sent) : sent[i].headersOf = DOMAIN arg.middleware
    /\ locals.emitted = DOMAIN arg.middleware => Len(sent) = 1

\* C28: after a fetch of the secrets has succeeded, no request made through
\* the same client fetches them again before CACHE_TTL has passed since that
\* fetch: an hour for the secrets middleware, five minutes for the environment
\* middleware.
C28_NoFetchWithinCacheTtl ==
  fn = "HttpClientAxios.request" /\ pc = "configured" =>
    \A j \in 1..Len(sent) :
      \A i \in sent[j].after :
        sent[j].at - locals.closures[i].lastFetchTime >= CACHE_TTL[arg.middleware[1]]

====
